---- MODULE Spec2Model ----
(***************************************************************************)
(* A model of jeni's Injector (src/jeni.py): the provider registry with    *)
(* its class-tree lookup, note parsing, resolution with memoization,       *)
(* annotated application, partial application, annotation of callables,    *)
(* the context manager, and close.                                         *)
(*                                                                         *)
(* Python strings are sequences of one-character strings, so that          *)
(* parse_note is modelled by what the regular expression does.  Python's   *)
(* None is the empty tuple None and a present value v is Some(v) = <<v>>.  *)
(***************************************************************************)
EXTENDS Integers, Sequences, FiniteSets, TLC

VARIABLES
    provider_registry,  \* class -> None | Some(table): vars(cls)['provider_registry']
    support_name,       \* generator function -> None | Some(BOOLEAN): fn.support_name
    cls,                \* the class of the injector instance, type(self)
    closed,             \* self.closed
    instances,          \* self.instances: basenote -> provider instance
    values,             \* self.values: basenote -> memoized value
    get_order,          \* self.get_order
    stats,              \* self.stats: note -> count
    adapter,            \* None | Some(p): a GeneratorProvider the program made itself
    fn_notes,           \* function -> None | Some(annotation): fn.__notes__
    wrappers,           \* the partially applied functions made so far, in order
    scope,              \* where the application is relative to its with-block
    world,              \* what the providers' data sources currently answer
    nops,               \* number of operations performed so far (bounded)
    rets,               \* history: basenote -> values returned by unqualified gets
    okcalls,            \* history: basenote -> producer calls that answered an unqualified get
    built,              \* history: basenote -> provider objects constructed / initialised
    firstok,            \* history: basenotes in order of first successful get
    served,             \* history: basenotes whose instance supplied a value to a successful get
    closes,             \* history: basenote -> number of close() calls on its instance
    last                \* history: the last operation and its outcome

vars == <<provider_registry, support_name, cls, closed, instances, values,
          get_order, stats, fn_notes, wrappers, scope, adapter, world, nops, rets,
          okcalls, built, firstok, served, closes, last>>

(***************************************************************************)
(* Bounds of the model.                                                    *)
(***************************************************************************)
MaxOps == 4

(***************************************************************************)
(* Option values and small helpers.                                        *)
(***************************************************************************)
None == <<>>
Some(v) == <<v>>

Min(S) == CHOOSE m \in S : \A n \in S : m <= n

Reverse(s) == [i \in 1..Len(s) |-> s[Len(s) + 1 - i]]

InSeq(x, s) == \E i \in 1..Len(s) : s[i] = x

\* collections.defaultdict(int): a missing key counts 0.
Count(f, k) == IF k \in DOMAIN f THEN f[k] ELSE 0

Put(f, k, v) == [x \in DOMAIN f \cup {k} |-> IF x = k THEN v ELSE f[x]]

\* dict.update: the entries of g override those of f.
Update(f, g) == [x \in DOMAIN f \cup DOMAIN g |-> IF x \in DOMAIN g THEN g[x] ELSE f[x]]

(***************************************************************************)
(* The class tree.  Injector is jeni's base class; App and Other subclass  *)
(* it, Mock subclasses App.  `object` ends every method resolution order   *)
(* and never carries a provider_registry.                                  *)
(***************************************************************************)
Classes == {"Injector", "App", "Mock", "Other"}

mro(c) ==
    CASE c = "Injector" -> <<"Injector", "object">>
      [] c = "App"      -> <<"App", "Injector", "object">>
      [] c = "Mock"     -> <<"Mock", "App", "Injector", "object">>
      [] c = "Other"    -> <<"Other", "Injector", "object">>

HasRegistry(reg, c) == c \in DOMAIN reg /\ reg[c] # None

(***************************************************************************)
(* Notes.                                                                  *)
(***************************************************************************)
Str(base) == [t |-> "str", s |-> base]
Maybe(n) == [t |-> "maybe", n |-> n]
\* annotate.partial(fn, *a, **kw) and annotate.eager_partial(fn, *a, **kw)
PartialWith(fn, a, kw) == [t |-> "partial", fn |-> fn, a |-> a, kw |-> kw]
EagerPartialWith(fn, a, kw) == [t |-> "eager_partial", fn |-> fn, a |-> a, kw |-> kw]
\* annotate.partial(fn) and annotate.eager_partial(fn), without bound arguments
Partial(fn) == PartialWith(fn, <<>>, <<>>)
EagerPartial(fn) == EagerPartialWith(fn, <<>>, <<>>)

IsMaybe(note) == note.t = "maybe"

\* re_note = ^(.*?)(?::(.*))?$ : the shortest prefix before the first ':',
\* then everything after it; no ':' leaves the second group None.
Colons(s) == {i \in 1..Len(s) : s[i] = ":"}

parse_note(note) ==
    IF note.t = "maybe"
    THEN <<<<"m", "a", "y", "b", "e">>, Some(note.n)>>
    ELSE IF note.t = "partial"
    THEN <<<<"p", "a", "r", "t", "i", "a", "l">>, Some(note.fn)>>
    ELSE IF note.t = "eager_partial"
    THEN <<<<"e", "a", "g", "e", "r", "_", "p", "a", "r", "t", "i", "a", "l">>,
           Some(note.fn)>>
    ELSE IF Colons(note.s) = {}
    THEN <<note.s, None>>
    ELSE LET i == Min(Colons(note.s))
         IN  <<SubSeq(note.s, 1, i - 1), Some(SubSeq(note.s, i + 1, Len(note.s)))>>

(***************************************************************************)
(* Registry.                                                               *)
(***************************************************************************)
\* Mutant of register: the table is created only if the class has no
\* provider_registry attribute at all, inherited ones included, so that the
\* entry goes into the table of the nearest class that has one.
register_inherited(reg, c, note, provider) ==
    LET basenote == parse_note(note)[1]
        holders == {i \in 1..Len(mro(c)) : HasRegistry(reg, mro(c)[i])}
        target == IF holders = {} THEN c ELSE mro(c)[Min(holders)]
        own == IF reg[target] = None THEN <<>> ELSE reg[target][1]
    IN  [reg EXCEPT ![target] = Some(Put(own, basenote, provider))]

\* Injector.register: the class's own table is created on first use.
register(reg, c, note, provider) ==
    LET basenote == parse_note(note)[1]
        own == IF reg[c] = None THEN <<>> ELSE reg[c][1]
    IN  [reg EXCEPT ![c] = Some(Put(own, basenote, provider))]

\* Injector.lookup: walk the method resolution order from position i.
RECURSIVE lookup_from(_, _, _, _)
lookup_from(reg, order, i, basenote) ==
    IF i > Len(order)
    THEN None
    ELSE IF ~HasRegistry(reg, order[i])
         THEN lookup_from(reg, order, i + 1, basenote)
         ELSE IF basenote \in DOMAIN reg[order[i]][1]
              THEN Some(reg[order[i]][1][basenote])
              ELSE lookup_from(reg, order, i + 1, basenote)

\* Mutant of lookup: the method resolution order is walked from its far end.
lookup_reversed(reg, c, basenote) == lookup_from(reg, Reverse(mro(c)), 1, basenote)

\* None stands for the LookupError raised at the end of the walk.
lookup(reg, c, basenote) == lookup_from(reg, mro(c), 1, basenote)

(***************************************************************************)
(* The application's providers.  Each name stands for one fixed piece of   *)
(* user code of one of the three kinds Injector._handle_provider tells     *)
(* apart: a Provider class, a generator function, a plain function.        *)
(*   echo   a factory function  echo(name=None)                            *)
(*   Conf   a Provider class whose get reads a data source that may be     *)
(*          unset (raise UnsetError) or broken (raise ValueError)          *)
(*   Dep    a Provider class whose __init__ is annotated ('a')             *)
(*   Svc    a Provider class whose __init__ is annotated ('b')             *)
(*   join   a factory function annotated (k='b')                           *)
(*   need   a factory function annotated ('b:q')                           *)
(*   once   a generator function with one yield                            *)
(*   twice  a generator function with two yields                           *)
(*   spam   a generator function that answers send(name) in a loop         *)
(*   zero   a generator function whose body returns before any yield        *)
(*   feed   a generator function with one yield, whose body reads the data *)
(*          source before the yield (and raises as Conf.get does)          *)
(***************************************************************************)
Providers == {"echo", "Conf", "Dep", "Svc", "join", "need", "once", "twice", "spam",
              "feed", "zero"}

Kind(d) ==
    CASE d \in {"Conf", "Dep", "Svc"}            -> "class"
      [] d \in {"once", "twice", "spam", "feed", "zero"} -> "gen"
      [] OTHER                                   -> "fn"

GeneratorFunctions == {d \in Providers : Kind(d) = "gen"}

\* Number of yields the generator body reaches through next(); a looping
\* body yields again on every resume.
Yields(d) == CASE d = "once" -> 1 [] d = "twice" -> 2 [] d = "zero" -> 0 [] OTHER -> 1
Loops(d) == d = "spam"

\* Providers whose get depends on the data source.
Flaky(d) == d = "Conf"

\* Generator functions whose body depends on the data source before the
\* first yield.
Scarce(d) == d = "feed"

Worlds == {"up", "down", "broken"}

A == <<"a">>
B == <<"b">>
C == <<"c">>
Q == <<"q">>
Qualified(base, name) == base \o <<":">> \o name

NoNotes == [pos |-> <<>>, kw |-> <<>>]

\* __notes__ of the provider's constructor (class) or of the generator
\* function; None when not annotated.
InitNotes(d) ==
    CASE d = "Dep" -> Some([pos |-> <<Str(A)>>, kw |-> <<>>])
      [] d = "Svc" -> Some([pos |-> <<Str(B)>>, kw |-> <<>>])
      [] OTHER     -> None

\* __notes__ of the producing function: provider.get, or the factory.
GetNotes(d) ==
    CASE d = "join" -> Some([pos |-> <<>>, kw |-> <<[k |-> "k", note |-> Str(B)]>>])
      [] d = "need" -> Some([pos |-> <<Str(Qualified(B, Q))>>, kw |-> <<>>])
      [] OTHER      -> None

(***************************************************************************)
(* Failures.  The model names each failure by what raised it:              *)
(*   Unresolved        LookupError("Unable to resolve ...")   Injector.get *)
(*   Unset             UnsetError, a LookupError              a provider   *)
(*   Failure           ValueError                             a provider   *)
(*   Closed            RuntimeError("... already closed")     Injector     *)
(*   DidNotYield, DidNotStop, NotInitialized  RuntimeError    generators   *)
(*   NoGetByName       TypeError                              generators   *)
(***************************************************************************)
\* Mutant of IsLookupError: every exception is caught.
IsException(e) == TRUE

\* except LookupError: UnsetError is a LookupError.
IsLookupError(e) == e \in {"Unresolved", "Unset"}

Value(d, name) == [d |-> d, q |-> name]

Ok(st, v) == [st |-> st, ok |-> TRUE, val |-> v, err |-> "", note |-> None]
Raise(st, e, note) == [st |-> st, ok |-> FALSE, val |-> None, err |-> e, note |-> note]

(***************************************************************************)
(* GeneratorProvider.  An instance records its function, the support_name  *)
(* it was built with, the value of the first yield, how many yields of the *)
(* body were consumed, and whether the generator has finished.  A Provider *)
(* class instance uses the same record with the generator fields idle.     *)
(***************************************************************************)
ClassInstance(d) ==
    [d |-> d, support_name |-> FALSE, initialized |-> FALSE,
     init_value |-> None, pos |-> 0, done |-> FALSE]

\* GeneratorProvider.__init__
GeneratorProvider(function, sn) ==
    [d |-> function, support_name |-> sn, initialized |-> FALSE,
     init_value |-> None, pos |-> 0, done |-> FALSE]

\* next(generator) / generator.send(x): TRUE when the body yields again.
Resumes(p) == ~p.done /\ (Loops(p.d) \/ p.pos < Yields(p.d))

Resume(p) ==
    IF Resumes(p)
    THEN [p EXCEPT !.pos = @ + 1]
    ELSE [p EXCEPT !.done = TRUE]

\* GeneratorProvider.init that is marked initialized whatever the body did.
gp_init_marked(p) ==
    IF p.pos < Yields(p.d)
    THEN [ok |-> TRUE, err |-> "",
          p |-> [p EXCEPT !.pos = 1, !.initialized = TRUE,
                          !.init_value = Some(Value(p.d, None))],
          val |-> Value(p.d, None)]
    ELSE [ok |-> FALSE, err |-> "DidNotYield",
          p |-> [p EXCEPT !.done = TRUE, !.initialized = TRUE], val |-> None]

\* GeneratorProvider.init
gp_init(p) ==
    IF p.pos < Yields(p.d)
    THEN [ok |-> TRUE, err |-> "",
          p |-> [p EXCEPT !.pos = 1, !.initialized = TRUE,
                          !.init_value = Some(Value(p.d, None))],
          val |-> Value(p.d, None)]
    ELSE [ok |-> FALSE, err |-> "DidNotYield", p |-> [p EXCEPT !.done = TRUE],
          val |-> None]

\* GeneratorProvider.init, lines 89-91: what the body raises before its
\* first yield leaves init as it is.
gp_init_in(p, w) ==
    IF Scarce(p.d) /\ w = "down"
    THEN [ok |-> FALSE, err |-> "Unset", p |-> p, val |-> None]
    ELSE IF Scarce(p.d) /\ w = "broken"
    THEN [ok |-> FALSE, err |-> "Failure", p |-> p, val |-> None]
    ELSE gp_init(p)

\* GeneratorProvider.get that resumes the body on every get.
gp_get_resuming(p, name) ==
    IF ~p.initialized
    THEN [ok |-> FALSE, err |-> "NotInitialized", p |-> p, val |-> None]
    ELSE IF name = None
    THEN [ok |-> TRUE, err |-> "", p |-> Resume(p), val |-> p.init_value[1]]
    ELSE IF ~p.support_name
    THEN [ok |-> FALSE, err |-> "NoGetByName", p |-> Resume(p), val |-> None]
    ELSE IF Resumes(p)
    THEN [ok |-> TRUE, err |-> "", p |-> Resume(p), val |-> Value(p.d, name)]
    ELSE [ok |-> FALSE, err |-> "DidNotYield", p |-> Resume(p), val |-> None]

\* GeneratorProvider.get
gp_get(p, name) ==
    IF ~p.initialized
    THEN [ok |-> FALSE, err |-> "NotInitialized", p |-> p, val |-> None]
    ELSE IF name = None
    THEN [ok |-> TRUE, err |-> "", p |-> p, val |-> p.init_value[1]]
    ELSE IF ~p.support_name
    THEN [ok |-> FALSE, err |-> "NoGetByName", p |-> p, val |-> None]
    ELSE IF Resumes(p)
    THEN [ok |-> TRUE, err |-> "", p |-> Resume(p), val |-> Value(p.d, name)]
    ELSE [ok |-> FALSE, err |-> "DidNotYield", p |-> Resume(p), val |-> None]

\* GeneratorProvider.close, lines 122-128: next(generator) must stop.
gp_stop(g) ==
    IF Resumes(g)
    THEN [ok |-> FALSE, err |-> "DidNotStop", p |-> Resume(g)]
    ELSE [ok |-> TRUE, err |-> "", p |-> Resume(g)]

\* GeneratorProvider.close
gp_close(p) ==
    IF ~p.initialized
    THEN [ok |-> FALSE, err |-> "NotInitialized", p |-> p]
    ELSE gp_stop(IF p.support_name THEN [p EXCEPT !.done = TRUE] ELSE p)

\* Provider.close: the default does nothing.
provider_close(p) ==
    IF Kind(p.d) = "gen" THEN gp_close(p) ELSE [ok |-> TRUE, err |-> "", p |-> p]

Boxed(g) == [g EXCEPT !.p = Some(g.p)]

\* The producing function called at Injector._handle_provider's
\* fn() / fn(name=name): the instance's get, or the factory itself.
Produce(p, d, name, w) ==
    IF p # None /\ Kind(p[1].d) = "gen"
    THEN Boxed(gp_get(p[1], name))
    ELSE IF Flaky(d) /\ w = "down"
    THEN [ok |-> FALSE, err |-> "Unset", p |-> p, val |-> None]
    ELSE IF Flaky(d) /\ w = "broken"
    THEN [ok |-> FALSE, err |-> "Failure", p |-> p, val |-> None]
    ELSE [ok |-> TRUE, err |-> "", p |-> p, val |-> Value(d, name)]

(***************************************************************************)
(* Resolution.  The operators below thread the injector's state st (the    *)
(* instance attributes and the history that rides along with them) through *)
(* the nested calls, and return it with the outcome.  An operator named    *)
(* x_then continues x after the call whose result it is given.             *)
(***************************************************************************)
State ==
    [closed |-> closed, instances |-> instances, values |-> values,
     get_order |-> get_order, stats |-> stats, rets |-> rets,
     okcalls |-> okcalls, built |-> built, firstok |-> firstok,
     served |-> served]

Prepared(st, args, kwargs) ==
    [st |-> st, ok |-> TRUE, args |-> args, kwargs |-> kwargs, err |-> "",
     note |-> None]
NotPrepared(r) ==
    [st |-> r.st, ok |-> FALSE, args |-> <<>>, kwargs |-> <<>>, err |-> r.err,
     note |-> r.note]

\* History kept at a successful return of Injector.get.
Returned(r, basenote, name) ==
    IF ~r.ok
    THEN r
    ELSE [r EXCEPT
            !.st.rets = IF name = None
                        THEN Put(@, basenote,
                                 (IF basenote \in DOMAIN @ THEN @[basenote] ELSE {})
                                     \cup {r.val})
                        ELSE @,
            !.st.firstok = IF InSeq(basenote, @) THEN @ ELSE Append(@, basenote),
            !.st.served = IF /\ basenote \in DOMAIN r.st.instances
                             /\ r.st.instances[basenote].d = r.val.d
                          THEN @ \cup {basenote}
                          ELSE @]

(***************************************************************************)
(* The application's callables.  f, g and h are annotated when their       *)
(* module is loaded:                                                       *)
(*   f   @annotate('a', k=maybe('b'), m=maybe('c'))                        *)
(*   g   @annotate('b:q')                                                  *)
(*   h   @annotate(k='b')                                                  *)
(* u and v are plain functions without annotation, and bm is a bound       *)
(* method whose __func__ is v.                                             *)
(***************************************************************************)
Callables == {"f", "g", "h"}
Functions == Callables \cup {"u", "v"}
Methods == {"bm"}

\* The notes the decorators above hand to Annotator.set_annotations.
Decorated(fn) ==
    CASE fn = "f" -> [pos |-> <<Str(A)>>,
                      kw |-> <<[k |-> "k", note |-> Maybe(Str(B))],
                               [k |-> "m", note |-> Maybe(Str(C))]>>]
      [] fn = "g" -> [pos |-> <<Str(Qualified(B, Q))>>, kw |-> <<>>]
      [] fn = "h" -> [pos |-> <<>>, kw |-> <<[k |-> "k", note |-> Str(B)]>>]

\* Annotator.get_annotations / set_annotations, lines 224-225 and 233-234:
\* a method stands for its __func__.
func(fn) == IF fn \in Methods THEN "v" ELSE fn

\* Annotator.has_annotations
has_annotations(fn) == fn_notes[func(fn)] # None

\* Annotator.get_annotations: fn.__notes__ (AttributeError when there is none,
\* which the callers below test with has_annotations first).
get_annotations(fn) == fn_notes[func(fn)][1]

\* Annotator.set_annotations: None stands for the AttributeError raised when
\* the callable already has notes.
\* Annotator.set_annotations without lines 235-237: the notes are replaced.
set_annotations_again(notes_of, fn, annotation) ==
    Some([notes_of EXCEPT ![func(fn)] = Some(annotation)])

set_annotations(notes_of, fn, annotation) ==
    IF notes_of[func(fn)] # None
    THEN None
    ELSE Some([notes_of EXCEPT ![func(fn)] = Some(annotation)])

RECURSIVE get(_, _)
RECURSIVE prepare_args(_, _, _, _)
RECURSIVE prepare_kwargs(_, _, _, _, _)

prepare_args_then(r, notes, i, args) ==
    IF r.ok
    THEN prepare_args(r.st, notes, i + 1, Append(args, r.val))
    ELSE NotPrepared(r)

\* Injector.prepare_notes, line 577: args = tuple(self.get(note) ...).
prepare_args(st, notes, i, args) ==
    IF i > Len(notes)
    THEN Prepared(st, args, <<>>)
    ELSE prepare_args_then(get(st, notes[i]), notes, i, args)

\* Mutant of prepare_kwargs_then: a dropped keyword is bound to None.
prepare_kwargs_default(r, kw, i, partial, kwargs) ==
    IF r.ok
    THEN prepare_kwargs(r.st, kw, i + 1, partial, Put(kwargs, kw[i].k, r.val))
    ELSE IF (IsMaybe(kw[i].note) \/ partial) /\ IsLookupError(r.err)
    THEN prepare_kwargs(r.st, kw, i + 1, partial, Put(kwargs, kw[i].k, None))
    ELSE NotPrepared(r)

prepare_kwargs_then(r, kw, i, partial, kwargs) ==
    IF r.ok
    THEN prepare_kwargs(r.st, kw, i + 1, partial, Put(kwargs, kw[i].k, r.val))
    ELSE IF (IsMaybe(kw[i].note) \/ partial) /\ IsLookupError(r.err)
    THEN prepare_kwargs(r.st, kw, i + 1, partial, kwargs)
    ELSE NotPrepared(r)

\* Injector.prepare_notes, lines 578-593: the loop over keyword_notes.
prepare_kwargs(st, kw, i, partial, kwargs) ==
    IF i > Len(kw)
    THEN Prepared(st, <<>>, kwargs)
    ELSE prepare_kwargs_then(
             get(st, IF IsMaybe(kw[i].note) THEN kw[i].note.n ELSE kw[i].note),
             kw, i, partial, kwargs)

prepare_notes_join(a, k) ==
    IF k.ok THEN Prepared(k.st, a.args, k.kwargs) ELSE k

prepare_notes_then(a, notes, partial) ==
    IF ~a.ok
    THEN a
    ELSE prepare_notes_join(a, prepare_kwargs(a.st, notes.kw, 1, partial, <<>>))

\* Injector.prepare_notes
prepare_notes(st, notes, partial) ==
    prepare_notes_then(prepare_args(st, notes.pos, 1, <<>>), notes, partial)

\* Injector.prepare_callable
prepare_callable(st, fn, partial) ==
    IF ~has_annotations(fn)
    THEN NotPrepared(Raise(st, "AttributeError", None))
    ELSE prepare_notes(st, get_annotations(fn), partial)

\* The notes of an optional annotation (None: not annotated, nothing to get).
prepare_optional(st, annotation, partial) ==
    IF annotation # None
    THEN prepare_notes(st, annotation[1], partial)
    ELSE Prepared(st, <<>>, <<>>)

NotInitialised(st, err, note) ==
    [st |-> st, ok |-> FALSE, p |-> None, val |-> None, err |-> err, note |-> note]

init_generator_then(pr, i) ==
    IF ~pr.ok
    THEN NotInitialised(pr.st, pr.err, pr.note)
    ELSE IF ~i.ok
    THEN NotInitialised(pr.st, i.err, None)
    ELSE [st |-> pr.st, ok |-> TRUE, p |-> Some(i.p), val |-> Some(i.val),
          err |-> "", note |-> None]

\* Injector.init_generator
init_generator(st, fn) ==
    IF support_name[fn] = None
    THEN NotInitialised(st, "AttributeError", None)
    ELSE init_generator_then(
             prepare_optional(st, InitNotes(fn), FALSE),
             gp_init_in(GeneratorProvider(fn, support_name[fn][1]), world))

\* Injector._handle_provider, lines 642-656: the producer has answered;
\* memoize an unqualified value, re-note an UnsetError.
produced(st, out, note, basenote, name) ==
    IF ~out.ok
    THEN Raise(st, out.err, IF out.err = "Unset" THEN Some(note) ELSE None)
    ELSE IF name = None
    THEN Ok([st EXCEPT !.values = Put(@, basenote, out.val),
                       !.okcalls = Put(@, basenote, Count(@, basenote) + 1)],
            out.val)
    ELSE Ok(st, out.val)

Kept(st, basenote, out) ==
    IF out.p # None
    THEN [st EXCEPT !.instances = Put(@, basenote, out.p[1])]
    ELSE st

call_producer_then(pr, out, note, basenote, name) ==
    IF ~pr.ok
    THEN Raise(pr.st, pr.err, IF pr.err = "Unset" THEN Some(note) ELSE pr.note)
    ELSE produced(Kept(pr.st, basenote, out), out, note, basenote, name)

call_producer_of(st, p, fn, note, basenote, name) ==
    call_producer_then(prepare_optional(st, GetNotes(fn), TRUE),
                       Produce(p, fn, name, world), note, basenote, name)

\* Injector._handle_provider, lines 636-656: pick the producing function,
\* resolve it as a partial when annotated, call it.
call_producer(st, provider_or_fn, note, basenote, name) ==
    IF basenote \in DOMAIN st.instances
    THEN call_producer_of(st, Some(st.instances[basenote]),
                          st.instances[basenote].d, note, basenote, name)
    ELSE call_producer_of(st, None, provider_or_fn, note, basenote, name)

\* Injector._handle_provider, lines 621-629: a Provider class.
construct_then(pr, cl, note, basenote, name) ==
    IF ~pr.ok
    THEN Raise(pr.st, pr.err, pr.note)
    ELSE call_producer(
             [pr.st EXCEPT !.instances = Put(@, basenote, ClassInstance(cl)),
                           !.built = Put(@, basenote, Count(@, basenote) + 1)],
             cl, note, basenote, name)

Initialised(st, basenote, g) ==
    [st EXCEPT !.instances = Put(@, basenote, g.p[1]),
               !.values = Put(@, basenote, g.val[1]),
               !.built = Put(@, basenote, Count(@, basenote) + 1)]

\* Injector._handle_provider, lines 630-635: a generator function.
generator_then(g, fn, note, basenote, name) ==
    IF ~g.ok
    THEN Raise(g.st, g.err, g.note)
    ELSE IF name = None
    THEN Ok([Initialised(g.st, basenote, g) EXCEPT
                !.okcalls = Put(@, basenote, Count(@, basenote) + 1)],
            g.val[1])
    ELSE call_producer(Initialised(g.st, basenote, g), fn, note, basenote, name)

\* Mutant of _handle_provider: the instance kept for the base note is not
\* reused, a provider is built on every call.
_handle_provider_fresh(st, provider_or_fn, note, basenote, name) ==
    IF Kind(provider_or_fn) = "class"
    THEN construct_then(prepare_optional(st, InitNotes(provider_or_fn), FALSE),
                        provider_or_fn, note, basenote, name)
    ELSE IF Kind(provider_or_fn) = "gen"
    THEN generator_then(init_generator(st, provider_or_fn),
                        provider_or_fn, note, basenote, name)
    ELSE call_producer(st, provider_or_fn, note, basenote, name)

\* Injector._handle_provider
_handle_provider(st, provider_or_fn, note, basenote, name) ==
    IF basenote \in DOMAIN st.instances
    THEN call_producer(st, provider_or_fn, note, basenote, name)
    ELSE IF Kind(provider_or_fn) = "class"
    THEN construct_then(prepare_optional(st, InitNotes(provider_or_fn), FALSE),
                        provider_or_fn, note, basenote, name)
    ELSE IF Kind(provider_or_fn) = "gen"
    THEN generator_then(init_generator(st, provider_or_fn),
                        provider_or_fn, note, basenote, name)
    ELSE call_producer(st, provider_or_fn, note, basenote, name)

\* Injector.handle_provider that records the base note whether or not
\* _handle_provider raised.
handle_provider_always(r, basenote) ==
    [r EXCEPT !.st.get_order = IF InSeq(basenote, @) THEN @ ELSE Append(@, basenote)]

handle_provider_then(r, basenote) ==
    IF r.ok
    THEN [r EXCEPT !.st.get_order =
              IF InSeq(basenote, @) THEN @ ELSE Append(@, basenote)]
    ELSE r

\* Injector.handle_provider
handle_provider(st, provider_or_fn, note) ==
    handle_provider_then(
        _handle_provider(st, provider_or_fn, note,
                         parse_note(note)[1], parse_note(note)[2]),
        parse_note(note)[1])

\* Injector.get, lines 545-550: look the provider up and hand over to it.
get_lookup(st, note, basenote, name, found) ==
    IF found = None
    THEN Raise(st, "Unresolved", Some(note))
    ELSE Returned(handle_provider(st, found[1], note), basenote, name)

\* Injector.get with the memoized value answering every note of the base.
get_parsed_any_name(st, note, basenote, name) ==
    IF basenote \in DOMAIN st.values
    THEN Returned(Ok(st, st.values[basenote]), basenote, name)
    ELSE get_lookup(st, note, basenote, name,
                    lookup(provider_registry, cls, basenote))

\* Injector.get, lines 542-550: the memoized value answers an unqualified note.
get_parsed(st, note, basenote, name) ==
    IF name = None /\ basenote \in DOMAIN st.values
    THEN Returned(Ok(st, st.values[basenote]), basenote, name)
    ELSE get_lookup(st, note, basenote, name,
                    lookup(provider_registry, cls, basenote))

\* Injector.partial without line 471: the annotation is not asked for.
injector_partial_unchecked(st, fn, a, kw) ==
    Ok(st, [d |-> "lazy_injection_fn", q |-> Some(fn), user_args |-> a,
            user_kwargs |-> kw, arg_pack |-> None])

\* Injector.partial: the annotation is read (AttributeError when there is
\* none), nothing is resolved, and the lazy function is returned.  The
\* function object is recorded with what its closure holds (fn in q,
\* user_args, user_kwargs) and its arg_pack attribute.
injector_partial(st, fn, a, kw) ==
    IF ~has_annotations(fn)
    THEN Raise(st, "AttributeError", None)
    ELSE Ok(st, [d |-> "lazy_injection_fn", q |-> Some(fn), user_args |-> a,
                 user_kwargs |-> kw, arg_pack |-> None])

eager_partial_then(pr, fn, a, kw) ==
    IF pr.ok
    THEN Ok(pr.st, [d |-> "functools.partial", q |-> Some(fn),
                    args |-> pr.args \o a, kwargs |-> Update(pr.kwargs, kw)])
    ELSE Raise(pr.st, pr.err, pr.note)

\* Injector.eager_partial that defers like Injector.partial.
eager_partial_deferred(st, fn, a, kw) == injector_partial(st, fn, a, kw)

\* Injector.eager_partial
eager_partial(st, fn, a, kw) ==
    eager_partial_then(prepare_callable(st, fn, TRUE), fn, a, kw)

\* Injector.get without lines 533-540: a directive is parsed and looked up
\* like any other note.
get_counted_by_token(st, note) ==
    get_parsed(st, note, parse_note(note)[1], parse_note(note)[2])

\* Injector.get, lines 533-550: after the request is counted.
get_counted(st, note) ==
    IF note.t = "partial"
    THEN injector_partial(st, note.fn, note.a, note.kw)
    ELSE IF note.t = "eager_partial"
    THEN eager_partial(st, note.fn, note.a, note.kw)
    ELSE get_parsed(st, note, parse_note(note)[1], parse_note(note)[2])

\* Mutant of get: the closed check is missing.
get_unguarded(st, note) ==
    get_counted([st EXCEPT !.stats = Put(@, note, Count(@, note) + 1)], note)

get_late_then(r, note) ==
    IF r.ok THEN [r EXCEPT !.st.stats = Put(@, note, Count(@, note) + 1)] ELSE r

\* Injector.get with the request recorded once the note has resolved.
get_counted_late(st, note) ==
    IF st.closed
    THEN Raise(st, "Closed", None)
    ELSE get_late_then(get_counted(st, note), note)

\* Injector.get
get(st, note) ==
    IF st.closed
    THEN Raise(st, "Closed", None)
    ELSE get_counted([st EXCEPT !.stats = Put(@, note, Count(@, note) + 1)], note)

\* The call fn(*args, **kwargs), recorded as its own result.
Call(fn, args, kwargs) == [fn |-> fn, args |-> args, kwargs |-> kwargs]

\* Injector.apply with the caller's arguments put first and the resolved
\* keywords winning.
apply_extras_first(pr, fn, a, kw) ==
    IF pr.ok
    THEN [st |-> pr.st, ok |-> TRUE, called |-> TRUE, err |-> "", note |-> None,
          val |-> Call(fn, a \o pr.args, Update(kw, pr.kwargs))]
    ELSE [st |-> pr.st, ok |-> FALSE, called |-> FALSE, err |-> pr.err,
          note |-> pr.note, val |-> None]

apply_then(pr, fn, a, kw) ==
    IF pr.ok
    THEN [st |-> pr.st, ok |-> TRUE, called |-> TRUE, err |-> "", note |-> None,
          val |-> Call(fn, pr.args \o a, Update(pr.kwargs, kw))]
    ELSE [st |-> pr.st, ok |-> FALSE, called |-> FALSE, err |-> pr.err,
          note |-> pr.note, val |-> None]

\* Injector.apply
apply(st, fn, a, kw) == apply_then(prepare_callable(st, fn, FALSE), fn, a, kw)

Called(st, w, val) ==
    [st |-> st, ok |-> TRUE, called |-> TRUE, err |-> "", note |-> None,
     val |-> val, w |-> w]

\* The call of lazy_injection_fn with the arguments of the call put first
\* and the packed keywords winning.
lazy_call_run_first(st, w, run_args, run_kwargs) ==
    Called(st, w, Call(w.q[1], run_args \o w.arg_pack[1].args,
                       Update(run_kwargs, w.arg_pack[1].kwargs)))

\* Injector.partial.lazy_injection_fn, lines 483-487: final_args and
\* final_kwargs from the arg_pack, then the call.
lazy_call(st, w, run_args, run_kwargs) ==
    Called(st, w, Call(w.q[1], w.arg_pack[1].args \o run_args,
                       Update(w.arg_pack[1].kwargs, run_kwargs)))

\* Injector.partial.lazy_injection_fn, lines 477-482: the arg_pack is set.
Packed(w, pr) ==
    [w EXCEPT !.arg_pack = Some([args |-> pr.args \o w.user_args,
                                 kwargs |-> Update(pr.kwargs, w.user_kwargs)])]

\* lazy_injection_fn that sets an arg_pack, an empty one, when the notes
\* fail to resolve.
lazy_injection_packs_failure(pr, w, run_args, run_kwargs) ==
    IF ~pr.ok
    THEN [st |-> pr.st, ok |-> FALSE, called |-> FALSE, err |-> pr.err,
          note |-> pr.note, val |-> None,
          w |-> [w EXCEPT !.arg_pack = Some([args |-> w.user_args,
                                             kwargs |-> w.user_kwargs])]]
    ELSE lazy_call(pr.st, Packed(w, pr), run_args, run_kwargs)

lazy_injection_then(pr, w, run_args, run_kwargs) ==
    IF ~pr.ok
    THEN [st |-> pr.st, ok |-> FALSE, called |-> FALSE, err |-> pr.err,
          note |-> pr.note, val |-> None, w |-> w]
    ELSE lazy_call(pr.st, Packed(w, pr), run_args, run_kwargs)

\* lazy_injection_fn without the arg_pack test: every call resolves again.
lazy_injection_again(st, w, run_args, run_kwargs) ==
    lazy_injection_then(prepare_callable(st, w.q[1], TRUE), w,
                        run_args, run_kwargs)

\* Injector.partial.lazy_injection_fn
lazy_injection_fn(st, w, run_args, run_kwargs) ==
    IF w.arg_pack # None
    THEN lazy_call(st, w, run_args, run_kwargs)
    ELSE lazy_injection_then(prepare_callable(st, w.q[1], TRUE), w,
                             run_args, run_kwargs)

\* A call of the functools.partial object Injector.eager_partial returned.
functools_partial(st, w, run_args, run_kwargs) ==
    Called(st, w, Call(w.q[1], w.args \o run_args, Update(w.kwargs, run_kwargs)))

\* A call of a partially applied function.
invoke(st, w, run_args, run_kwargs) ==
    IF w.d = "lazy_injection_fn"
    THEN lazy_injection_fn(st, w, run_args, run_kwargs)
    ELSE functools_partial(st, w, run_args, run_kwargs)

RECURSIVE close_from(_, _, _, _)

close_one(c, inst, order, i, log) ==
    IF c.ok
    THEN close_from(Put(inst, order[i], c.p), order, i + 1, Append(log, order[i]))
    ELSE [ok |-> FALSE, err |-> c.err, instances |-> Put(inst, order[i], c.p),
          log |-> Append(log, order[i])]

\* Injector.close, lines 561-566: the loop over reversed(self.get_order),
\* from position i of the reversed order.  log collects the basenotes whose
\* instance had close() called.
close_from(inst, order, i, log) ==
    IF i > Len(order)
    THEN [ok |-> TRUE, err |-> "", instances |-> inst, log |-> log]
    ELSE IF order[i] \notin DOMAIN inst
    THEN close_from(inst, order, i + 1, log)
    ELSE close_one(provider_close(inst[order[i]]), inst, order, i, log)

close_then(c) ==
    [ok |-> c.ok, err |-> c.err, closed |-> c.ok, instances |-> c.instances,
     log |-> c.log]

\* Injector.close
close(st) ==
    IF st.closed
    THEN [ok |-> FALSE, err |-> "Closed", closed |-> st.closed,
          instances |-> st.instances, log |-> <<>>]
    ELSE close_then(close_from(st.instances, Reverse(st.get_order), 1, <<>>))

(***************************************************************************)
(* Actions.                                                                *)
(***************************************************************************)
\* Arguments the caller passes itself: *a and **kw.
Arguments(a, kw) == [args |-> a, kwargs |-> kw]
NoArguments == Arguments(<<>>, <<>>)

Outcome(op, arg, r, called) ==
    [op |-> op, arg |-> arg, ok |-> r.ok, val |-> IF r.ok THEN Some(r.val) ELSE None,
     err |-> r.err, note |-> r.note, called |-> called, log |-> <<>>,
     was_closed |-> closed, given |-> NoArguments]

Idle(op) ==
    [op |-> op, arg |-> None, ok |-> TRUE, val |-> None, err |-> "", note |-> None,
     called |-> FALSE, log |-> <<>>, was_closed |-> closed, given |-> NoArguments]

Registered(op, c, note, provider) ==
    [op |-> op, arg |-> Some([c |-> c, note |-> note, provider |-> provider]),
     ok |-> TRUE, val |-> None, err |-> "", note |-> None, called |-> FALSE,
     log |-> <<>>, was_closed |-> closed, given |-> NoArguments]

Become(st) ==
    /\ closed' = st.closed
    /\ instances' = st.instances
    /\ values' = st.values
    /\ get_order' = st.get_order
    /\ stats' = st.stats
    /\ rets' = st.rets
    /\ okcalls' = st.okcalls
    /\ built' = st.built
    /\ firstok' = st.firstok
    /\ served' = st.served

GetReturns(r, note) ==
    /\ Become(r.st)
    /\ last' = Outcome("get", Some(note), r, FALSE)

\* injector.get(note)
Get(note) ==
    /\ nops < MaxOps
    /\ GetReturns(get(State, note), note)
    /\ nops' = nops + 1
    /\ UNCHANGED <<adapter, provider_registry, support_name, cls, fn_notes, wrappers, scope,
                   world, closes>>

GetWrapperReturns(r, note) ==
    /\ GetReturns(r, note)
    /\ wrappers' = IF r.ok THEN Append(wrappers, r.val) ELSE wrappers

\* w = injector.get(note) for a partial or eager_partial directive: the
\* caller keeps the function it is given, to call it later.
GetWrapper(note) ==
    /\ nops < MaxOps
    /\ note.t \in {"partial", "eager_partial"}
    /\ GetWrapperReturns(get(State, note), note)
    /\ nops' = nops + 1
    /\ UNCHANGED <<adapter, provider_registry, support_name, cls, fn_notes, scope, world,
                   closes>>

ApplyReturns(r, fn) ==
    /\ Become(r.st)
    /\ last' = Outcome("apply", Some(fn), r, r.called)

\* injector.apply(fn)
Apply(fn) ==
    /\ nops < MaxOps
    /\ ApplyReturns(apply(State, fn, <<>>, <<>>), fn)
    /\ nops' = nops + 1
    /\ UNCHANGED <<adapter, provider_registry, support_name, cls, fn_notes, wrappers, scope,
                   world, closes>>

CloseReturns(r) ==
    /\ closed' = r.closed
    /\ instances' = r.instances
    /\ closes' = [b \in DOMAIN closes \cup {r.log[i] : i \in 1..Len(r.log)} |->
                     Count(closes, b)
                     + Cardinality({i \in 1..Len(r.log) : r.log[i] = b})]

\* injector.close()
CloseDone(r) ==
    /\ CloseReturns(r)
    /\ last' = [op |-> "close", arg |-> None, ok |-> r.ok, val |-> None,
                err |-> r.err, note |-> None, called |-> FALSE,
                log |-> r.log, was_closed |-> closed, given |-> NoArguments]

\* injector.apply(fn, *a, **kw)
ApplyWith(fn, a, kw) ==
    /\ nops < MaxOps
    /\ Become(apply(State, fn, a, kw).st)
    /\ last' = [Outcome("apply", Some(fn), apply(State, fn, a, kw),
                        apply(State, fn, a, kw).called)
                   EXCEPT !.given = Arguments(a, kw)]
    /\ nops' = nops + 1
    /\ UNCHANGED <<adapter, provider_registry, support_name, cls, fn_notes, wrappers, scope,
                   world, closes>>

MakeReturns(op, r, fn, a, kw) ==
    /\ Become(r.st)
    /\ wrappers' = IF r.ok THEN Append(wrappers, r.val) ELSE wrappers
    /\ last' = [Outcome(op, Some(fn), r, FALSE) EXCEPT !.given = Arguments(a, kw)]

\* injector.partial(fn, *a, **kw)
MakePartial(fn, a, kw) ==
    /\ nops < MaxOps
    /\ MakeReturns("partial", injector_partial(State, fn, a, kw), fn, a, kw)
    /\ nops' = nops + 1
    /\ UNCHANGED <<adapter, provider_registry, support_name, cls, fn_notes, scope, world,
                   closes>>

\* injector.eager_partial(fn, *a, **kw)
MakeEager(fn, a, kw) ==
    /\ nops < MaxOps
    /\ MakeReturns("eager_partial", eager_partial(State, fn, a, kw), fn, a, kw)
    /\ nops' = nops + 1
    /\ UNCHANGED <<adapter, provider_registry, support_name, cls, fn_notes, scope, world,
                   closes>>

InvokeReturns(r, i, run_args, run_kwargs) ==
    /\ Become(r.st)
    /\ wrappers' = [wrappers EXCEPT ![i] = r.w]
    /\ last' = [Outcome("call", Some(i), r, r.called)
                   EXCEPT !.given = Arguments(run_args, run_kwargs),
                          !.log = IF wrappers[i] = r.w THEN <<world>>
                                  ELSE <<world, "arg_pack">>]

\* wrappers[i](*run_args, **run_kwargs)
Invoke(i, run_args, run_kwargs) ==
    /\ nops < MaxOps
    /\ i \in 1..Len(wrappers)
    /\ InvokeReturns(invoke(State, wrappers[i], run_args, run_kwargs),
                     i, run_args, run_kwargs)
    /\ nops' = nops + 1
    /\ UNCHANGED <<adapter, provider_registry, support_name, cls, fn_notes, scope, world,
                   closes>>

\* injector.close()
Close ==
    /\ nops < MaxOps
    /\ CloseDone(close(State))
    /\ nops' = nops + 1
    /\ UNCHANGED <<adapter, provider_registry, support_name, cls, values, get_order, stats,
                   fn_notes, wrappers, scope, world, rets, okcalls, built, firstok,
                   served>>

AnnotateReturns(r, fn, annotation) ==
    /\ fn_notes' = IF r = None THEN fn_notes ELSE r[1]
    /\ last' = [Idle("annotate") EXCEPT
                   !.arg = Some([fn |-> fn, annotation |-> annotation]),
                   !.ok = r # None,
                   !.err = IF r = None THEN "AttributeError" ELSE ""]

\* annotate(*notes, **keyword_notes)(fn): the decorator of
\* Annotator.__call__ applied to a function or to a bound method.
Annotate(fn, annotation) ==
    /\ nops < MaxOps
    /\ AnnotateReturns(set_annotations(fn_notes, fn, annotation), fn, annotation)
    /\ nops' = nops + 1
    /\ UNCHANGED <<adapter, provider_registry, support_name, cls, closed, instances, values,
                   get_order, stats, wrappers, scope, world, rets, okcalls, built,
                   firstok, served, closes>>

\* provider = GeneratorProvider(function, support_name=sn)
NewAdapter(function, sn) ==
    /\ nops < MaxOps
    /\ adapter = None
    /\ adapter' = Some(GeneratorProvider(function, sn))
    /\ last' = [Idle("gp.new") EXCEPT !.arg = Some(function)]
    /\ nops' = nops + 1
    /\ UNCHANGED <<provider_registry, support_name, cls, closed, instances, values,
                   get_order, stats, fn_notes, wrappers, scope, world, rets, okcalls,
                   built, firstok, served, closes>>

AdapterReturns(op, arg, r) ==
    /\ adapter' = Some(r.p)
    /\ last' = [Idle(op) EXCEPT !.arg = arg, !.ok = r.ok, !.err = r.err]
    /\ nops' = nops + 1
    /\ UNCHANGED <<provider_registry, support_name, cls, closed, instances, values,
                   get_order, stats, fn_notes, wrappers, scope, world, rets, okcalls,
                   built, firstok, served, closes>>

AdapterGot(name, r) ==
    /\ adapter' = Some(r.p)
    /\ last' = [Idle("gp.get") EXCEPT !.arg = Some(name), !.ok = r.ok, !.err = r.err,
                                      !.val = IF r.ok THEN Some(r.val) ELSE None]
    /\ nops' = nops + 1
    /\ UNCHANGED <<provider_registry, support_name, cls, closed, instances, values,
                   get_order, stats, fn_notes, wrappers, scope, world, rets, okcalls,
                   built, firstok, served, closes>>

\* provider.init(), on an adapter init has not yet succeeded on.
AdapterInit ==
    /\ nops < MaxOps
    /\ adapter # None
    /\ ~adapter[1].initialized
    /\ AdapterReturns("gp.init", None, gp_init_in(adapter[1], world))

\* provider.get(name)
AdapterGet(name) ==
    /\ nops < MaxOps
    /\ adapter # None
    /\ AdapterGot(name, gp_get(adapter[1], name))

\* provider.close()
AdapterClose ==
    /\ nops < MaxOps
    /\ adapter # None
    /\ AdapterReturns("gp.close", None, gp_close(adapter[1]))

\* Injector.__enter__ at the head of a with-block, or injector.enter().
Enter ==
    /\ nops < MaxOps
    /\ scope = "none"
    /\ scope' = "in"
    /\ last' = Idle("enter")
    /\ nops' = nops + 1
    /\ UNCHANGED <<adapter, provider_registry, support_name, cls, closed, instances, values,
                   get_order, stats, fn_notes, wrappers, world, rets, okcalls,
                   built, firstok, served, closes>>

\* What leaves a with-block whose body raised exc (None: it did not) and
\* whose __exit__ returned nothing or raised: the failure of __exit__ takes
\* the place of the body's.
ExitReturns(r, exc) ==
    /\ CloseReturns(r)
    /\ last' = [op |-> "exit", arg |-> exc, ok |-> r.ok /\ exc = None, val |-> None,
                err |-> IF ~r.ok THEN r.err ELSE IF exc # None THEN exc[1] ELSE "",
                note |-> None, called |-> FALSE, log |-> r.log,
                was_closed |-> closed, given |-> NoArguments]

\* Injector.__exit__ at the end of a with-block whose body raised exc or
\* finished (exc = None, which is also injector.exit()).
Exit(exc) ==
    /\ nops < MaxOps
    /\ scope = "in"
    /\ scope' = "left"
    /\ ExitReturns(close(State), exc)
    /\ nops' = nops + 1
    /\ UNCHANGED <<adapter, provider_registry, support_name, cls, values, get_order, stats,
                   fn_notes, wrappers, world, rets, okcalls, built, firstok, served>>

\* Injector.provider(note, provider, name) on class c: a generator function
\* has its support_name attribute set, then either kind is registered.
Provider(c, note, provider, name) ==
    /\ nops < MaxOps
    /\ Kind(provider) \in {"class", "gen"}
    /\ support_name' = IF Kind(provider) = "gen"
                       THEN [support_name EXCEPT ![provider] = Some(name)]
                       ELSE support_name
    /\ provider_registry' = register(provider_registry, c, note, provider)
    /\ last' = Registered("provider", c, note, provider)
    /\ nops' = nops + 1
    /\ UNCHANGED <<adapter, cls, closed, instances, values, get_order, stats, fn_notes,
                   wrappers, scope, world, rets, okcalls, built, firstok, served,
                   closes>>

\* Injector.factory(note, fn) on class c
Factory(c, note, fn) ==
    /\ nops < MaxOps
    /\ provider_registry' = register(provider_registry, c, note, fn)
    /\ last' = Registered("factory", c, note, fn)
    /\ nops' = nops + 1
    /\ UNCHANGED <<adapter, support_name, cls, closed, instances, values, get_order, stats,
                   fn_notes, wrappers, scope, world, rets, okcalls, built, firstok,
                   served, closes>>

\* The data source behind the flaky providers changes.
Turn(w) ==
    /\ w # world
    /\ world' = w
    /\ last' = Idle("turn")
    /\ UNCHANGED <<adapter, provider_registry, support_name, cls, closed, instances, values,
                   get_order, stats, fn_notes, wrappers, scope, nops, rets, okcalls,
                   built, firstok, served, closes>>

(***************************************************************************)
(* Spec: one injector of class App.  jeni's base Injector class carries    *)
(* the registrations  a -> echo,  b -> Conf;  App starts without a table   *)
(* of its own, and the application may register on it while it runs.       *)
(***************************************************************************)
NoRegistry == [c \in Classes |-> None]

Fresh ==
    /\ closed = FALSE
    /\ instances = <<>>
    /\ values = <<>>
    /\ get_order = <<>>
    /\ stats = <<>>
    /\ nops = 0
    /\ rets = <<>>
    /\ okcalls = <<>>
    /\ built = <<>>
    /\ firstok = <<>>
    /\ served = {}
    /\ closes = <<>>
    /\ fn_notes = [fn \in Functions |->
                      IF fn \in Callables THEN Some(Decorated(fn)) ELSE None]
    /\ wrappers = <<>>
    /\ scope = "none"
    /\ adapter = None
    /\ last = Idle("new")

Init ==
    /\ provider_registry =
           register(register(NoRegistry, "Injector", Str(A), "echo"),
                    "Injector", Str(B), "Conf")
    /\ support_name = [g \in GeneratorFunctions |-> None]
    /\ cls = "App"
    /\ world = "up"
    /\ Fresh

Notes == {Str(A), Str(Qualified(A, Q)), Str(B), Str(Qualified(B, Q)),
          Str(C), Str(Qualified(C, Q)), Partial("f"), EagerPartial("g")}

Next ==
    \/ \E note \in Notes : Get(note)
    \/ \E fn \in Callables : Apply(fn)
    \/ Close
    \/ \E g \in {"once", "twice"} : Provider("App", Str(C), g, FALSE)
    \/ Provider("App", Str(Qualified(C, Q)), "spam", TRUE)
    \/ Provider("App", Str(C), "Dep", FALSE)
    \/ Provider("App", Str(A), "once", FALSE)
    \/ \E fn \in {"join", "need"} : Factory("App", Str(C), fn)
    \/ \E w \in Worlds : Turn(w)

Spec == Init /\ [][Next]_vars

(***************************************************************************)
(* SpecRegistry: the class tree starts without any registration, the       *)
(* injector is of any class of the tree, and the application registers     *)
(* factories and Provider classes on any class while notes are requested.  *)
(***************************************************************************)
InitRegistry ==
    /\ provider_registry = NoRegistry
    /\ support_name = [g \in GeneratorFunctions |-> None]
    /\ cls \in Classes
    /\ world = "up"
    /\ Fresh

RegistryNotes == {Str(A), Str(Qualified(B, Q))}

NextRegistry ==
    \/ \E c \in Classes, note \in RegistryNotes : Factory(c, note, "echo")
    \/ \E c \in Classes, note \in RegistryNotes : Provider(c, note, "Conf", FALSE)
    \/ \E note \in {Str(A), Str(B), Str(Qualified(A, Q))} : Get(note)

SpecRegistry == InitRegistry /\ [][NextRegistry]_vars

(***************************************************************************)
(* SpecCalls: the injector of Spec, used to apply and to partially apply   *)
(* the annotated functions f and g and the plain function u, with and      *)
(* without arguments of the caller's own, while the source of b changes    *)
(* and b is registered anew.                                               *)
(***************************************************************************)
Given(x) == [d |-> "given", q |-> Some(x)]

\* What the caller passes when it makes a partial or applies: nothing, or a
\* positional argument and a keyword that collides with f's keyword k.
Bound == {NoArguments, Arguments(<<Given("p")>>, [x \in {"k"} |-> Given("k1")])}

\* What the caller passes when it calls a partially applied function.
AtCall == {NoArguments, Arguments(<<Given("r")>>, [x \in {"k"} |-> Given("k2")])}

\* Number of operations in a run of SpecCalls.
MaxCalls == 3

CallsLeft == nops < MaxCalls

NextCalls ==
    \/ \E fn \in {"f", "u"}, b \in Bound : CallsLeft /\ ApplyWith(fn, b.args, b.kwargs)
    \/ \E fn \in {"f", "g", "u"}, b \in Bound : CallsLeft /\ MakePartial(fn, b.args, b.kwargs)
    \/ \E b \in Bound : CallsLeft /\ MakeEager("f", b.args, b.kwargs)
    \/ \E b \in Bound : CallsLeft /\ GetWrapper(PartialWith("f", b.args, b.kwargs))
    \/ CallsLeft /\ GetWrapper(EagerPartial("g"))
    \/ \E i \in 1..MaxOps, r \in AtCall : CallsLeft /\ Invoke(i, r.args, r.kwargs)
    \/ CallsLeft /\ Factory("App", Str(B), "echo")
    \/ \E w \in Worlds : Turn(w)

SpecCalls == Init /\ [][NextCalls]_vars

(***************************************************************************)
(* SpecNames: the injector of Spec asked for b and c bare and under two    *)
(* names, q and r, while the source of b changes and c is registered as a  *)
(* generator that answers by name or as the factory echo.                  *)
(***************************************************************************)
R == <<"r">>

NamesNotes == {Str(B), Str(Qualified(B, Q)), Str(Qualified(B, R)),
               Str(C), Str(Qualified(C, Q)), Str(Qualified(C, R))}

NextNames ==
    \/ \E note \in NamesNotes : Get(note)
    \/ Provider("App", Str(C), "spam", TRUE)
    \/ Factory("App", Str(C), "echo")
    \/ \E w \in Worlds : Turn(w)

SpecNames == Init /\ [][NextNames]_vars

(***************************************************************************)
(* SpecStats: the injector of Spec asked for b, 'b:q', c and               *)
(* eager_partial(g), where c comes to depend on other notes (Dep on 'a',   *)
(* join on 'b', need on 'b:q'), the source of b changes, and the injector  *)
(* is closed at some point.                                                *)
(***************************************************************************)
StatsNotes == {Str(B), Str(Qualified(B, Q)), Str(C), EagerPartial("g")}

NextStats ==
    \/ \E note \in StatsNotes : Get(note)
    \/ Close
    \/ Provider("App", Str(C), "Dep", FALSE)
    \/ \E fn \in {"join", "need"} : Factory("App", Str(C), fn)
    \/ \E w \in Worlds : Turn(w)

SpecStats == Init /\ [][NextStats]_vars

(***************************************************************************)
(* SpecScope: an injector used as a context manager.  c is registered as   *)
(* the generator once, and may be registered anew as twice or Dep; the     *)
(* body of the with-block asks for notes, and ends normally or by raising. *)
(***************************************************************************)
InitScope ==
    /\ provider_registry =
           register(register(register(NoRegistry, "Injector", Str(A), "echo"),
                             "Injector", Str(B), "Conf"),
                    "App", Str(C), "once")
    /\ support_name = [g \in GeneratorFunctions |->
                          IF g = "once" THEN Some(FALSE) ELSE None]
    /\ cls = "App"
    /\ world = "up"
    /\ Fresh

BlockErrors == {"BlockError"}

NextScope ==
    \/ Enter
    \/ \E note \in {Str(B), Str(C), Str(Qualified(C, Q))} : scope = "in" /\ Get(note)
    \/ \E e \in BlockErrors : Exit(None) \/ Exit(Some(e))
    \/ \E d \in {"twice", "Dep"} : Provider("App", Str(C), d, FALSE)
    \/ \E w \in Worlds : Turn(w)

SpecScope == InitScope /\ [][NextScope]_vars

(***************************************************************************)
(* SpecUnset: the injector of Spec asked for b and c, bare and by name,    *)
(* while the source of b changes and c is registered as a provider whose   *)
(* constructor needs b (Svc), as a factory that needs 'b:q' (need), or as  *)
(* a generator that reads the source itself (feed).                        *)
(***************************************************************************)
UnsetNotes == {Str(B), Str(Qualified(B, Q)), Str(C), Str(Qualified(C, Q))}

NextUnset ==
    \/ \E note \in UnsetNotes : Get(note)
    \/ \E d \in {"Svc", "feed"} : Provider("App", Str(C), d, FALSE)
    \/ Factory("App", Str(C), "need")
    \/ \E w \in Worlds : Turn(w)

SpecUnset == Init /\ [][NextUnset]_vars

(***************************************************************************)
(* SpecColon: the injector of Spec asked for a and b bare, with a trailing *)
(* colon ('a:', 'b:') and under the name 'q:r', while the source of b      *)
(* changes.                                                                *)
(***************************************************************************)
Colon == <<":">>

ColonNotes == {Str(A), Str(A \o Colon), Str(Qualified(A, Qualified(Q, R))),
               Str(B), Str(B \o Colon)}

NextColon ==
    \/ \E note \in ColonNotes : Get(note)
    \/ \E w \in Worlds : Turn(w)

SpecColon == Init /\ [][NextColon]_vars

(***************************************************************************)
(* SpecDirective: the injector of Spec asked for partial(f) and            *)
(* eager_partial(f) as notes, any number of times, and for the strings     *)
(* 'partial' and 'eager_partial', for which the factory echo comes to be   *)
(* registered; the functions returned are called.                          *)
(***************************************************************************)
PARTIAL == parse_note(Partial("f"))[1]
EAGER_PARTIAL == parse_note(EagerPartial("f"))[1]

NextDirective ==
    \/ \E note \in {Partial("f"), EagerPartial("f")} : GetWrapper(note)
    \/ \E token \in {PARTIAL, EAGER_PARTIAL} : Get(Str(token))
    \/ \E token \in {PARTIAL, EAGER_PARTIAL} : Factory("App", Str(token), "echo")
    \/ \E i \in 1..MaxOps : Invoke(i, <<>>, <<>>)

SpecDirective == Init /\ [][NextDirective]_vars

(***************************************************************************)
(* SpecLate: the injector of Spec, from which lazy partials of g ('b:q')   *)
(* are made and called while the source of b changes, before and after the *)
(* injector is closed.                                                     *)
(***************************************************************************)
NextLate ==
    \/ MakePartial("g", <<>>, <<>>)
    \/ \E i \in 1..MaxOps : Invoke(i, <<>>, <<>>)
    \/ Close
    \/ \E w \in Worlds : Turn(w)

SpecLate == Init /\ [][NextLate]_vars

(***************************************************************************)
(* SpecFlag: the generator function spam is registered on App for c with   *)
(* name=True and for a with name=False, in either order and at any time,   *)
(* while the injector is asked for a and c, bare and by the name q.        *)
(***************************************************************************)
FlagNotes == {Str(A), Str(Qualified(A, Q)), Str(C), Str(Qualified(C, Q))}

NextFlag ==
    \/ Provider("App", Str(C), "spam", TRUE)
    \/ Provider("App", Str(A), "spam", FALSE)
    \/ \E note \in FlagNotes : Get(note)

SpecFlag == Init /\ [][NextFlag]_vars

(***************************************************************************)
(* SpecAnnotate: annotate is applied, any number of times and with         *)
(* different notes, to the annotated function f, to the plain functions u  *)
(* and v, and to bm, a bound method of v.                                  *)
(***************************************************************************)
Annotations == {NoNotes, Decorated("g"), Decorated("h")}

NextAnnotate ==
    \E fn \in {"f", "u", "v"} \cup Methods, annotation \in Annotations :
        Annotate(fn, annotation)

SpecAnnotate == Init /\ [][NextAnnotate]_vars

(***************************************************************************)
(* SpecAdapter: a GeneratorProvider the program makes and drives itself    *)
(* (init, get, get by name, close, in any order), next to an injector for  *)
(* which c is registered as the generator zero, that never yields.         *)
(***************************************************************************)
NextAdapter ==
    \/ \E fn \in {"once", "twice", "spam", "zero"}, sn \in BOOLEAN : NewAdapter(fn, sn)
    \/ AdapterInit
    \/ \E name \in {None, Some(Q), Some(R)} : AdapterGet(name)
    \/ AdapterClose
    \/ Provider("App", Str(C), "zero", FALSE)
    \/ \E note \in {Str(C), Str(Qualified(C, Q))} : Get(note)
    \/ Close

SpecAdapter == Init /\ [][NextAdapter]_vars

(***************************************************************************)
(* Claims.                                                                 *)
(***************************************************************************)
LastIs(op) == last.op = op
LastNote == last.arg[1]
LastBase == parse_note(LastNote)[1]
LastName == parse_note(LastNote)[2]
HasInstance(b) == b \in DOMAIN instances

\* C1: for every base note, all unqualified gets that returned on this
\* injector returned one and the same value, and at most one call of the
\* provider's get / the factory answered an unqualified request for it,
\* whatever qualified gets, applies and registrations came in between.
C1_MemoStable ==
    \A b \in DOMAIN rets :
        /\ Cardinality(rets[b]) <= 1
        /\ Count(okcalls, b) <= 1

\* C2: a close() that completes has called close on the provider instances
\* in exactly the reverse of the order in which their base notes first
\* completed a successful get.
C2_CloseReverse ==
    (LastIs("close") /\ last.ok) =>
        last.log = SelectSeq(Reverse(firstok), HasInstance)

\* What Injector.close does close: the instances of get_order, in reverse.
C2_CloseReverseOfGetOrder ==
    (LastIs("close") /\ last.ok) =>
        last.log = SelectSeq(Reverse(get_order), HasInstance)

\* Apart from the instances C5 finds left out of get_order, the order is the
\* reverse of first success.
C2_CloseReverseOfTracked ==
    (LastIs("close") /\ last.ok /\ \A b \in served : InSeq(b, get_order)) =>
        last.log = SelectSeq(Reverse(firstok), HasInstance)

\* C3: closed goes from false to true exactly once, by a close() that
\* completed, and never back; on a closed injector every close() and every
\* get(note), memoized or not, fails with the already-closed error.
C3_ClosedForGood ==
    /\ last.was_closed => closed
    /\ (closed /\ ~last.was_closed) <=> (LastIs("close") /\ last.ok)
    /\ (last.was_closed /\ (LastIs("get") \/ LastIs("close"))) =>
           (~last.ok /\ last.err = "Closed")

C3_Witness ==
    /\ LastIs("get")
    /\ last.was_closed
    /\ LastName = None
    /\ LastBase \in DOMAIN values

C3_WitnessDirective == LastIs("get") /\ last.was_closed /\ LastNote = Partial("f")

C3_WitnessClose == LastIs("close") /\ last.was_closed

\* C4: no provider instance has close() called on it more than once over
\* the lifetime of the injector, a failed close() followed by another
\* close() included.
C4_ClosedOnce == \A b \in DOMAIN closes : closes[b] <= 1

\* C5: after a close() that completes, every provider instance that
\* supplied the value of a successful get has had close() called.
C5_AllClosed ==
    (LastIs("close") /\ last.ok) => \A b \in served : Count(closes, b) >= 1

\* C6: for every base note at most one provider object is constructed or
\* initialised; it is the one kept in instances, and it answers every later
\* qualified get of that base whatever the registry says by then.
C6_OneInstance ==
    /\ \A b \in DOMAIN built \cup DOMAIN instances :
           Count(built, b) = 1 /\ b \in DOMAIN instances
    /\ (LastIs("get") /\ last.ok /\ LastName # None /\ LastBase \in DOMAIN instances) =>
           last.val[1].d = instances[LastBase].d

C6_Witness ==
    /\ LastIs("get")
    /\ last.ok
    /\ LastNote = Str(Qualified(C, Q))
    /\ Count(stats, Str(C)) >= 1
    /\ C \in DOMAIN instances
    /\ instances[C].d = "spam"
    /\ Count(built, C) = 1

Bases == {A, B, C}

\* The positions in c's method resolution order of the classes whose own
\* table holds basenote.
Holders(reg, c, basenote) ==
    {i \in 1..Len(mro(c)) :
        /\ HasRegistry(reg, mro(c)[i])
        /\ basenote \in DOMAIN reg[mro(c)[i]][1]}

\* c2 is c or a descendant of c, and no class nearer to c2 than c holds
\* basenote in its own table.
SeesThrough(reg, c2, c, basenote) ==
    \E i \in 1..Len(mro(c2)) :
        /\ mro(c2)[i] = c
        /\ \A j \in Holders(reg, c2, basenote) : j >= i

\* The number of gets of the base note, qualified or not, so far.
Requests(basenote) ==
    Count(stats, Str(basenote)) + Count(stats, Str(Qualified(basenote, Q)))

\* C7: a registration of a note on class c writes c's own table only: the
\* table of every other class is as it was, so the lookup of that base from
\* every class that does not reach c first (ancestors and siblings, which
\* keep the ancestor's descriptor) returns what it returned before, while c
\* and the descendants of c that look the base up through c get the new
\* descriptor; lookups of other bases are unchanged everywhere.
C7_RegisterOwnTable ==
    [][(nops' = nops + 1 /\ last'.op \in {"provider", "factory"}) =>
          /\ \A c2 \in Classes \ {last'.arg[1].c} :
                 provider_registry'[c2] = provider_registry[c2]
          /\ \A c2 \in Classes, b \in Bases :
                 lookup(provider_registry', c2, b) =
                     IF /\ b = parse_note(last'.arg[1].note)[1]
                        /\ SeesThrough(provider_registry, c2, last'.arg[1].c, b)
                     THEN Some(last'.arg[1].provider)
                     ELSE lookup(provider_registry, c2, b)]_vars

\* App has just shadowed the base note a of Injector: Injector and the sibling
\* Other keep Injector's descriptor, App and its subclass Mock get the new one.
C7_Witness ==
    /\ last.op \in {"provider", "factory"}
    /\ last.arg[1].c = "App"
    /\ parse_note(last.arg[1].note)[1] = A
    /\ HasRegistry(provider_registry, "Injector")
    /\ A \in DOMAIN provider_registry["Injector"][1]
    /\ provider_registry["Injector"][1][A] # last.arg[1].provider
    /\ ~HasRegistry(provider_registry, "Mock")
    /\ lookup(provider_registry, "Injector", A) = Some(provider_registry["Injector"][1][A])
    /\ lookup(provider_registry, "Other", A) = Some(provider_registry["Injector"][1][A])
    /\ lookup(provider_registry, "App", A) = Some(last.arg[1].provider)
    /\ lookup(provider_registry, "Mock", A) = Some(last.arg[1].provider)

\* C8: lookup from a class returns the descriptor in the own table of the
\* nearest class of its method resolution order that holds the base note,
\* classes without a table being passed over, and fails exactly when no
\* class of the order holds it; an open injector's get fails as unresolvable
\* exactly in that case, and the failure names the note as requested; the
\* first request of a base is answered by the descriptor lookup returns.
C8_NearestFirst ==
    /\ \A c \in Classes, b \in Bases :
           lookup(provider_registry, c, b) =
               IF Holders(provider_registry, c, b) = {}
               THEN None
               ELSE Some(provider_registry[
                             mro(c)[Min(Holders(provider_registry, c, b))]][1][b])
    /\ (LastIs("get") /\ ~last.was_closed) =>
           /\ (~last.ok /\ last.err = "Unresolved")
                  <=> Holders(provider_registry, cls, LastBase) = {}
           /\ (~last.ok /\ last.err = "Unresolved") => last.note = Some(LastNote)
           /\ (last.ok /\ Requests(LastBase) = 1) =>
                  last.val[1].d = lookup(provider_registry, cls, LastBase)[1]

\* Mock has no table, App and Injector both hold b: the lookup from Mock
\* passes Mock over and stops at App.
C8_Witness ==
    /\ cls = "Mock"
    /\ ~HasRegistry(provider_registry, "Mock")
    /\ Holders(provider_registry, "Mock", B) = {2, 3}
    /\ provider_registry["App"][1][B] # provider_registry["Injector"][1][B]
    /\ LastIs("get")
    /\ LastBase = B
    /\ last.ok
    /\ last.val[1].d = provider_registry["App"][1][B]

C8_WitnessUnresolved ==
    /\ LastIs("get")
    /\ LastNote = Str(Qualified(A, Q))
    /\ ~last.ok
    /\ last.err = "Unresolved"
    /\ last.note = Some(Str(Qualified(A, Q)))
    /\ HasRegistry(provider_registry, cls)

LastApplied(fn) == LastIs("apply") /\ last.arg = Some(fn) /\ ~last.was_closed
Memoized(basenote) == basenote \in DOMAIN values

\* C9: in apply(f), f annotated ('a', k=maybe('b'), m=maybe('c')), a maybe
\* keyword whose note is unresolvable (nothing registered for c) or unset
\* (the source of b is down) is left out of the keywords, not bound to
\* anything, and f is still called with the rest; the keywords passed are
\* exactly those whose note resolved.  A positional note that fails makes
\* apply raise without calling the function (g, annotated ('b:q')), and
\* makes the lazy partial made for an annotated factory raise (need,
\* annotated ('b:q'), registered for c).
C9_MaybeOmitted ==
    /\ (LastIs("apply") /\ ~last.ok) => ~last.called
    /\ (LastApplied("f") /\ world # "broken") =>
           /\ last.ok /\ last.called
           /\ last.val[1].args = <<values[A]>>
           /\ DOMAIN last.val[1].kwargs =
                  {x \in {"k"} : Memoized(B)} \cup {x \in {"m"} : Memoized(C)}
           /\ "k" \in DOMAIN last.val[1].kwargs => last.val[1].kwargs["k"] = values[B]
           /\ "m" \in DOMAIN last.val[1].kwargs => last.val[1].kwargs["m"] = values[C]
           /\ "k" \notin DOMAIN last.val[1].kwargs => world = "down"
           /\ "m" \notin DOMAIN last.val[1].kwargs =>
                  \/ lookup(provider_registry, cls, C) = None
                  \/ world = "down" /\ lookup(provider_registry, cls, C) = Some("need")
    /\ LastApplied("g") =>
           /\ last.ok <=> world = "up"
           /\ world = "down" =>
                  last.err = "Unset" /\ last.note = Some(Str(Qualified(B, Q)))
    /\ ( /\ LastIs("get") /\ ~last.was_closed /\ LastNote = Str(C)
         /\ lookup(provider_registry, cls, C) = Some("need")
         /\ C \notin DOMAIN instances /\ ~Memoized(C) ) =>
           /\ ~last.ok
           /\ world # "up"
           /\ world = "down" => last.err = "Unset" /\ last.note = Some(Str(C))

\* apply(f) went through although neither b (unset) nor c (not registered)
\* could be resolved: f was called with the positional argument only.
C9_Witness ==
    /\ LastApplied("f")
    /\ world = "down"
    /\ lookup(provider_registry, cls, C) = None
    /\ last.ok /\ last.called
    /\ last.val[1].args = <<Value("echo", None)>>
    /\ last.val[1].kwargs = <<>>

C9_WitnessPositional ==
    LastApplied("g") /\ world = "down" /\ ~last.ok /\ ~last.called

C9_WitnessPartial ==
    /\ LastIs("get") /\ LastNote = Str(C) /\ ~last.ok /\ last.err = "Unset"
    /\ lookup(provider_registry, cls, C) = Some("need")

C10_WitnessOtherKind ==
    LastApplied("f") /\ world = "broken" /\ ~last.ok /\ last.err = "Failure"

C10_WitnessPartial ==
    /\ LastIs("get") /\ LastNote = Str(C) /\ last.ok /\ world = "down"
    /\ lookup(provider_registry, cls, C) = Some("join")
    /\ last.val[1].d = "join" /\ ~Memoized(B) /\ Requests(C) = 1

\* C11: apply(f, *a, **kw) that returns has called f once, with the resolved
\* positional note 'a' followed by the caller's positionals a, and with the
\* resolved keywords (k from 'b' when b resolved) overridden key by key by
\* the caller's keywords kw; what it returns is the result of that call.
\* When apply fails, f has not been called.
C11_ApplyArguments ==
    (LastIs("apply") /\ last.arg = Some("f")) =>
        IF last.ok
        THEN /\ last.called
             /\ last.val[1].fn = "f"
             /\ last.val[1].args = <<values[A]>> \o last.given.args
             /\ \A key \in DOMAIN last.given.kwargs :
                    /\ key \in DOMAIN last.val[1].kwargs
                    /\ last.val[1].kwargs[key] = last.given.kwargs[key]
             /\ \A key \in DOMAIN last.val[1].kwargs \ DOMAIN last.given.kwargs :
                    key = "k" /\ Memoized(B) /\ last.val[1].kwargs[key] = values[B]
             /\ Memoized(B) => "k" \in DOMAIN last.val[1].kwargs
        ELSE ~last.called

\* apply(f, p, k=k1) returned while b was resolved: the caller's k won.
C11_Witness ==
    /\ LastIs("apply") /\ last.arg = Some("f") /\ last.ok
    /\ last.given # NoArguments
    /\ Memoized(B)
    /\ last.val[1].args = <<values[A], Given("p")>>
    /\ last.val[1].kwargs["k"] = Given("k1")

Did(op) == nops' = nops + 1 /\ last'.op = op
NoResolution == values' = values /\ instances' = instances /\ get_order' = get_order
Lazy(w) == w.d = "lazy_injection_fn"
Newest(ws) == ws[Len(ws)]
PositionalNotes(fn) == {get_annotations(fn).pos[i] : i \in 1..Len(get_annotations(fn).pos)}

\* C12: making a lazy partial, by injector.partial or by a get of a partial
\* directive, resolves nothing: values, instances and get_order stay as they
\* are, no note is counted but the directive itself, and the new wrapper has
\* no cached arguments.  The first call of the wrapper resolves the notes
\* (each positional note is counted) and, when it returns, leaves the
\* arguments cached.  Every later call counts no note, changes nothing in
\* the injector or in the cache, succeeds, and calls the function with the
\* cached arguments, whatever the sources and the registry have become.
C12_LazyThenCached ==
    [][ /\ Did("partial") =>
              /\ NoResolution /\ stats' = stats
              /\ last'.ok => /\ Len(wrappers') = Len(wrappers) + 1
                             /\ Newest(wrappers').arg_pack = None
        /\ (Did("get") /\ last'.arg[1].t = "partial") =>
              /\ NoResolution
              /\ \A n \in DOMAIN stats' :
                    Count(stats', n) = Count(stats, n) + IF n = last'.arg[1] THEN 1 ELSE 0
              /\ last'.ok /\ Lazy(Newest(wrappers')) /\ Newest(wrappers').arg_pack = None
        /\ (Did("call") /\ Lazy(wrappers[last'.arg[1]])) =>
              IF wrappers[last'.arg[1]].arg_pack = None
              THEN last'.ok =>
                     /\ wrappers'[last'.arg[1]].arg_pack # None
                     /\ \A n \in PositionalNotes(wrappers[last'.arg[1]].q[1]) :
                            Count(stats', n) = Count(stats, n) + 1
                     /\ last'.val[1].args =
                            wrappers'[last'.arg[1]].arg_pack[1].args \o last'.given.args
              ELSE /\ NoResolution /\ stats' = stats /\ wrappers' = wrappers
                   /\ last'.ok /\ last'.called
                   /\ last'.val[1] =
                        Call(wrappers[last'.arg[1]].q[1],
                             wrappers[last'.arg[1]].arg_pack[1].args \o last'.given.args,
                             Update(wrappers[last'.arg[1]].arg_pack[1].kwargs,
                                    last'.given.kwargs))
      ]_vars

\* A lazy partial of g ('b:q') was called from its cache while the source of
\* b was down, where a fresh resolution of 'b:q' is unset: the call returned
\* with the value resolved at the first call.
C12_Witness ==
    /\ LastIs("call") /\ last.ok /\ last.log = <<"down">>
    /\ Lazy(wrappers[last.arg[1]])
    /\ last.val[1].fn = "g"
    /\ last.val[1].args[1] = Value("Conf", Some(Q))

LastWrapper == wrappers[last.arg[1]]
LastCall == last.val[1]
AtCallValues == {Given("r"), Given("k2")}
Range(f) == {f[x] : x \in DOMAIN f}

\* C13: a call of a lazy partial of f ('a', k=maybe('b'), m=maybe('c')) or
\* of g ('b:q') that returns has called the function with, in this order,
\* the resolved positional, the positionals bound when the partial was made,
\* and the positionals of the call; each keyword has the value of the call
\* if the call gives it, else the bound value if one was bound, else the
\* resolved value (k only, from b).  No wrapper's cached arguments ever hold
\* a value that was passed at a call.
C13_ThreeLayers ==
    /\ (LastIs("call") /\ last.ok /\ Lazy(LastWrapper)) =>
          /\ LastCall.fn = LastWrapper.q[1]
          /\ Len(LastCall.args) =
                1 + Len(LastWrapper.user_args) + Len(last.given.args)
          /\ IF LastCall.fn = "f" THEN LastCall.args[1] = values[A]
                                  ELSE LastCall.args[1].q = Some(Q)
          /\ SubSeq(LastCall.args, 2, Len(LastCall.args)) =
                LastWrapper.user_args \o last.given.args
          /\ \A key \in DOMAIN last.given.kwargs \cup DOMAIN LastWrapper.user_kwargs :
                key \in DOMAIN LastCall.kwargs
          /\ \A key \in DOMAIN LastCall.kwargs :
                LastCall.kwargs[key] =
                    IF key \in DOMAIN last.given.kwargs THEN last.given.kwargs[key]
                    ELSE IF key \in DOMAIN LastWrapper.user_kwargs
                    THEN LastWrapper.user_kwargs[key]
                    ELSE IF key = "k" /\ LastCall.fn = "f" /\ Memoized(B)
                    THEN values[B]
                    ELSE Given("none")
    /\ \A i \in 1..Len(wrappers) :
          (Lazy(wrappers[i]) /\ wrappers[i].arg_pack # None) =>
              /\ Range(wrappers[i].arg_pack[1].args) \cap AtCallValues = {}
              /\ Range(wrappers[i].arg_pack[1].kwargs) \cap AtCallValues = {}
              /\ Len(wrappers[i].arg_pack[1].args) = 1 + Len(wrappers[i].user_args)

\* partial(f, p, k=k1) called as w(r, k=k2) while b was resolved: all three
\* layers are there, and the keyword of the call wins over the bound one,
\* which had won over the resolved one.
C13_Witness ==
    /\ LastIs("call") /\ last.ok /\ Lazy(LastWrapper)
    /\ Memoized(B)
    /\ LastCall = Call("f", <<values[A], Given("p"), Given("r")>>,
                       [x \in {"k"} |-> Given("k2")])
    /\ LastWrapper.user_kwargs = [x \in {"k"} |-> Given("k1")]

\* A cached call without arguments of its own, on a partial with bound
\* arguments: the bound keyword is passed.
C13_WitnessLater ==
    /\ LastIs("call") /\ last.ok /\ Lazy(LastWrapper)
    /\ Len(last.log) = 1
    /\ last.given = NoArguments
    /\ Memoized(B)
    /\ LastCall = Call("f", <<values[A], Given("p")>>, [x \in {"k"} |-> Given("k1")])

\* The provider that answers b: the instance the injector holds, or else the
\* registration the lookup finds.
SourceOf(basenote) ==
    IF HasInstance(basenote) THEN instances[basenote].d
    ELSE lookup(provider_registry, cls, basenote)[1]
DidEager(fn) ==
    \/ Did("eager_partial") /\ last'.arg = Some(fn)
    \/ Did("get") /\ last'.arg[1].t = "eager_partial" /\ last'.arg[1].fn = fn

\* C14: injector.eager_partial(f, ...) and get(eager_partial(g)) resolve the
\* notes within that call: every positional note is counted once more, the
\* function returned already holds the resolved positional followed by the
\* bound ones, and when the positional note of g ('b:q') cannot be resolved
\* (its source is down or broken), or the keyword note of f fails with
\* something other than a lookup error (its source is broken), it is that
\* call that fails, with the failure of the note, and no function is
\* returned.  A call of the function
\* returned counts no note, changes nothing in the injector, always returns,
\* and calls the function with the values held since creation followed by
\* the arguments of the call.
C14_EagerResolvesAtOnce ==
    [][ /\ DidEager("f") =>
              /\ Count(stats', Str(A)) = Count(stats, Str(A)) + 1
              /\ Count(stats', Str(B)) = Count(stats, Str(B)) + 1
              /\ IF Flaky(SourceOf(B)) /\ world = "broken" /\ ~Memoized(B)
                 THEN /\ ~last'.ok
                      /\ last'.err = "Failure"
                      /\ wrappers' = wrappers
                 ELSE /\ last'.ok
                      /\ Len(wrappers') = Len(wrappers) + 1
                      /\ ~Lazy(Newest(wrappers'))
                      /\ Newest(wrappers').args = <<values'[A]>> \o last'.given.args
        /\ DidEager("g") =>
              /\ Count(stats', Str(Qualified(B, Q))) = Count(stats, Str(Qualified(B, Q))) + 1
              /\ IF Flaky(SourceOf(B)) /\ world # "up"
                 THEN /\ ~last'.ok
                      /\ last'.err = IF world = "down" THEN "Unset" ELSE "Failure"
                      /\ wrappers' = wrappers
                 ELSE /\ last'.ok
                      /\ Len(wrappers') = Len(wrappers) + 1
                      /\ ~Lazy(Newest(wrappers'))
                      /\ Newest(wrappers').args = <<Value(SourceOf(B), Some(Q))>>
        /\ (Did("call") /\ ~Lazy(wrappers[last'.arg[1]])) =>
              /\ NoResolution /\ stats' = stats /\ wrappers' = wrappers
              /\ last'.ok /\ last'.called
              /\ last'.val[1] =
                    Call(wrappers[last'.arg[1]].q[1],
                         wrappers[last'.arg[1]].args \o last'.given.args,
                         Update(wrappers[last'.arg[1]].kwargs, last'.given.kwargs))
      ]_vars

\* The function from get(eager_partial(g)) was called while the source of b
\* was down: it returned with the value resolved when it was made.
C14_Witness ==
    /\ LastIs("call") /\ last.ok /\ ~Lazy(LastWrapper)
    /\ last.log = <<"down">>
    /\ LastCall.fn = "g"
    /\ LastCall.args[1] = Value("Conf", Some(Q))

\* get(eager_partial(g)) failed because 'b:q' was unset.
C14_WitnessFails ==
    /\ LastIs("get") /\ ~last.ok /\ LastNote.t = "eager_partial"
    /\ last.err = "Unset" /\ last.note = Some(Str(Qualified(B, Q)))

\* C20: injector.apply(u, ...) and injector.partial(u, ...) on the function
\* u, which carries no annotation, fail there and then with the error of
\* get_annotations: u is not called, no function is returned, no note is
\* counted or resolved, and the injector is as it was.
C20_UnannotatedRejected ==
    [][ ((Did("apply") \/ Did("partial")) /\ last'.arg = Some("u")) =>
            /\ ~last'.ok /\ last'.err = "AttributeError"
            /\ ~last'.called
            /\ wrappers' = wrappers
            /\ NoResolution /\ stats' = stats /\ closed' = closed
      ]_vars

\* injector.partial(u) was refused on an injector that had resolved a and
\* holds a partial of f.
C20_Witness ==
    /\ LastIs("partial") /\ last.arg = Some("u") /\ ~last.ok
    /\ last.err = "AttributeError"
    /\ Memoized(A)
    /\ Len(wrappers) = 1

\* injector.apply(u, p, k=k1) was refused.
C20_WitnessApply ==
    /\ LastIs("apply") /\ last.arg = Some("u") /\ ~last.ok
    /\ last.err = "AttributeError"
    /\ last.given # NoArguments
    /\ Memoized(A)

DidGetByName ==
    /\ Did("get") /\ last'.arg[1].t = "str"
    /\ parse_note(last'.arg[1])[2] # None
NewBase == parse_note(last'.arg[1])[1]
NewName == parse_note(last'.arg[1])[2]
IsRegistered(basenote) == lookup(provider_registry, cls, basenote) # None

\* C15: a get of 'base:name' is answered by the provider of the base asked
\* with that name, as the provider stands at that moment: it returns
\* the provider's value for the name, it fails when the provider's source
\* is down or broken, whether or not the base is memoized and whether or not
\* the same name was returned before, and it fails as unresolved when
\* nothing is registered.  It never memoizes the value for the name: the
\* memoized values are as they were, but for the base when the get starts a
\* generator for it, whose bare first yield is then what is memoized.
C15_QualifiedNeverMemoized ==
    [][ DidGetByName =>
          /\ IF ~IsRegistered(NewBase) /\ ~HasInstance(NewBase)
             THEN ~last'.ok /\ last'.err = "Unresolved"
             ELSE IF Flaky(SourceOf(NewBase)) /\ world # "up"
             THEN ~last'.ok
                  /\ last'.err = IF world = "down" THEN "Unset" ELSE "Failure"
             ELSE last'.ok
                  /\ last'.val[1] = Value(SourceOf(NewBase), NewName)
          /\ DOMAIN values \subseteq DOMAIN values'
          /\ \A b \in DOMAIN values' :
                \/ b \in DOMAIN values /\ values'[b] = values[b]
                \/ /\ b = NewBase
                   /\ ~HasInstance(NewBase)
                   /\ Kind(SourceOf(NewBase)) = "gen"
                   /\ values'[b] = Value(SourceOf(NewBase), None)
      ]_vars

\* 'b:r' was answered by Conf for r while b was memoized and 'b:q' had been
\* asked before.
C15_Witness ==
    /\ LastIs("get") /\ last.ok /\ LastNote = Str(Qualified(B, R))
    /\ last.val[1] = Value("Conf", Some(R))
    /\ Memoized(B) /\ values[B] = Value("Conf", None)
    /\ Count(stats, Str(Qualified(B, Q))) > 0

\* 'b:q' failed as unset although b is memoized and 'b:q' was asked before.
C15_WitnessAsksAgain ==
    /\ LastIs("get") /\ ~last.ok /\ LastNote = Str(Qualified(B, Q))
    /\ last.err = "Unset"
    /\ Memoized(B)
    /\ Count(stats, Str(Qualified(B, Q))) > 1

\* 'c:q' was the first request of c, a generator: the first yield is
\* memoized, the answer for q is returned.
C15_WitnessGenerator ==
    /\ LastIs("get") /\ last.ok /\ LastNote = Str(Qualified(C, Q))
    /\ last.val[1] = Value("spam", Some(Q))
    /\ Memoized(C) /\ values[C] = Value("spam", None)
    /\ Requests(C) + Count(stats, Str(Qualified(C, R))) = 1

\* The notes the resolution of note n asks the injector for in turn: the
\* positional note of g for eager_partial(g); for a string note that the
\* memoized value does not answer, the notes of the provider's constructor
\* when it is still to be built (Dep: 'a') and of the producing function
\* (join: 'b', need: 'b:q').
NestedNotes(n) ==
    IF n.t = "partial" THEN {}
    ELSE IF n.t = "eager_partial" THEN PositionalNotes(n.fn)
    ELSE IF parse_note(n)[2] = None /\ Memoized(parse_note(n)[1]) THEN {}
    ELSE IF ~IsRegistered(parse_note(n)[1]) THEN {}
    ELSE IF SourceOf(parse_note(n)[1]) = "Dep" /\ ~HasInstance(parse_note(n)[1])
    THEN {Str(A)}
    ELSE IF SourceOf(parse_note(n)[1]) = "join" THEN {Str(B)}
    ELSE IF SourceOf(parse_note(n)[1]) = "need" THEN {Str(Qualified(B, Q))}
    ELSE {}

\* C16: a get of note n on an open injector counts n exactly once, whether
\* it is answered from the memoized value, resolved, or fails, and counts
\* once each note the resolution asks for in turn, whether or not that one
\* resolves; no other count moves.  A get on a closed injector fails as
\* closed and leaves stats, values, instances and get_order as they were.
C16_CountedOnce ==
    [][ Did("get") =>
          IF closed
          THEN /\ ~last'.ok /\ last'.err = "Closed"
               /\ stats' = stats /\ NoResolution
          ELSE \A m \in DOMAIN stats' \cup {last'.arg[1]} \cup NestedNotes(last'.arg[1]) :
                 Count(stats', m) = Count(stats, m)
                                    + (IF m = last'.arg[1] THEN 1 ELSE 0)
                                    + (IF m \in NestedNotes(last'.arg[1]) THEN 1 ELSE 0)
      ]_vars

\* get('c') failed through its dependency 'b:q' (c is the factory need, the
\* source of b is broken): both requests are counted, as are the two
\* earlier gets of b, of which at most one had to resolve it.
C16_Witness ==
    /\ LastIs("get") /\ ~last.ok /\ last.err = "Failure"
    /\ LastNote = Str(C)
    /\ Count(stats, Str(C)) = 1
    /\ Count(stats, Str(Qualified(B, Q))) = 1
    /\ Count(stats, Str(B)) = 2
    /\ Memoized(B)

\* A get on the closed injector: nothing is counted.
C16_WitnessClosed ==
    /\ LastIs("get") /\ last.was_closed /\ ~last.ok
    /\ LastNote = Str(B)
    /\ Count(stats, Str(B)) = 1

CloseErrors == {"DidNotStop", "NotInitialized", "Closed"}

\* C17: when control has left the with-block, the injector is closed, every
\* provider instance that supplied the value of a successful get has had
\* close() called, in the reverse of the order in which the base notes first
\* resolved, and an exception raised in the body is the one that reaches the
\* caller.
C17_ScopeCloses ==
    LastIs("exit") =>
        /\ closed
        /\ \A b \in served : Count(closes, b) >= 1
        /\ last.log = SelectSeq(Reverse(firstok), HasInstance)
        /\ last.arg # None => (~last.ok /\ last.err = last.arg[1])

\* What __exit__ does do: it is close().  When every instance that served a
\* get is in get_order and no provider's close raises, the injector is
\* closed, the instances are closed in reverse order, and the exception of
\* the body reaches the caller; when a provider's close raises, that failure
\* reaches the caller and the injector stays open.
C17_ExitIsClose ==
    LastIs("exit") =>
        /\ closed <=> last.err \notin CloseErrors
        /\ last.err \in CloseErrors => ~last.ok
        /\ (closed /\ \A b \in served : InSeq(b, get_order)) =>
              /\ \A b \in served : Count(closes, b) >= 1
              /\ last.log = SelectSeq(Reverse(firstok), HasInstance)
              /\ last.arg # None => (~last.ok /\ last.err = last.arg[1])

\* The body raised and the injector closed the generator of c on the way
\* out: the exception of the body reached the caller.
C17_WitnessRaised ==
    /\ LastIs("exit") /\ closed /\ last.arg = Some("BlockError")
    /\ last.err = "BlockError"
    /\ last.log = <<C>>

\* The body got c from the generator after 'c:q' had failed; the injector is
\* closed on the way out and the generator has not been closed.
C17_WitnessLeftOpen ==
    /\ LastIs("exit") /\ closed
    /\ C \in served /\ Count(closes, C) = 0

\* The close of the generator twice raised on the way out of a body that had
\* raised itself: the injector is still open and the caller sees the failure
\* of the close.
C17_WitnessCloseRaised ==
    /\ LastIs("exit") /\ ~closed /\ last.arg = Some("BlockError")
    /\ last.err = "DidNotStop"

\* C18: a get(n) that fails because a provider signalled UnsetError fails
\* with an UnsetError whose note is n, the note as it was asked for; when
\* the source is broken instead, get(n) fails with the provider's own error
\* and no note.
C18_UnsetCarriesNote ==
    (LastIs("get") /\ ~last.ok) =>
        /\ last.err = "Unset" => last.note = Some(LastNote)
        /\ last.err = "Failure" => last.note = None

\* What the code does: the UnsetError is given the note of the get when it
\* comes out of the call of the producing function (Conf.get, the factory
\* need together with the resolution of its notes).  When it comes out of
\* the construction of the provider it keeps what it had: the note of the
\* dependency (Svc, whose constructor needs b) or none at all (feed, whose
\* body raises before the first yield).
C18_NotedAtTheCall ==
    (LastIs("get") /\ ~last.ok /\ last.err = "Unset") =>
        last.note = IF IsRegistered(LastBase) /\ ~HasInstance(LastBase)
                       /\ SourceOf(LastBase) = "Svc"
                    THEN Some(Str(B))
                    ELSE IF IsRegistered(LastBase) /\ ~HasInstance(LastBase)
                            /\ SourceOf(LastBase) = "feed"
                    THEN None
                    ELSE Some(LastNote)

\* get('c:q') failed with the UnsetError of Conf, re-noted 'c:q', through
\* the factory need.
C18_WitnessNoted ==
    /\ LastIs("get") /\ ~last.ok /\ last.err = "Unset"
    /\ LastNote = Str(Qualified(C, Q))
    /\ SourceOf(C) = "need"
    /\ last.note = Some(Str(Qualified(C, Q)))

\* get('c') failed with an UnsetError without note: the generator feed
\* raised it before its first yield.
C18_WitnessNoNote ==
    /\ LastIs("get") /\ ~last.ok /\ last.err = "Unset"
    /\ LastNote = Str(C)
    /\ last.note = None

\* get('c:q') failed with an UnsetError noted 'b': the constructor of Svc
\* needs b.
C18_WitnessOtherNote ==
    /\ LastIs("get") /\ ~last.ok /\ last.err = "Unset"
    /\ LastNote = Str(Qualified(C, Q))
    /\ last.note = Some(Str(B))

FunctionOf(c) == IF c = "bm" THEN "v" ELSE c
Annotated(c) == fn_notes[FunctionOf(c)] # None

\* C19: annotate on a callable that already carries notes - the function
\* itself, or a bound method of an annotated function - fails with the
\* already-has-notes error and changes no annotation; annotate on one that
\* carries none succeeds and sets exactly the notes given, on the function
\* under a bound method; the notes a function carries never change or go
\* away; a bound method and its function always read back the same, and
\* has_annotations answers for every callable.
C19_AnnotatedOnce ==
    [][ /\ Did("annotate") =>
              IF Annotated(last'.arg[1].fn)
              THEN /\ ~last'.ok /\ last'.err = "AttributeError"
                   /\ fn_notes' = fn_notes
              ELSE /\ last'.ok
                   /\ fn_notes' = [fn_notes EXCEPT ![FunctionOf(last'.arg[1].fn)] =
                                                    Some(last'.arg[1].annotation)]
        /\ \A fn \in Functions : fn_notes[fn] # None => fn_notes'[fn] = fn_notes[fn]
        /\ \A c \in Functions \cup Methods : has_annotations(c) \in BOOLEAN
        /\ has_annotations("bm") <=> has_annotations("v")
        /\ has_annotations("bm") => get_annotations("bm") = get_annotations("v")
      ]_vars

\* annotate on the bound method bm was refused because v, its function, had
\* been annotated; the notes of v are the first ones.
C19_Witness ==
    /\ LastIs("annotate") /\ ~last.ok /\ last.arg[1].fn = "bm"
    /\ fn_notes["v"] # None
    /\ fn_notes["v"] # Some(last.arg[1].annotation)

\* annotate on v was refused after bm had been annotated.
C19_WitnessFunction ==
    /\ LastIs("annotate") /\ ~last.ok /\ last.arg[1].fn = "v"
    /\ nops = 2

\* C21: close() on the adapter fails when init has not succeeded on it, and
\* fails when the close() just before it succeeded: an adapter is closed at
\* most once.
C21_AdapterClosedOnce ==
    [][ Did("gp.close") =>
          /\ ~adapter[1].initialized => (~last'.ok /\ last'.err = "NotInitialized")
          /\ (last.op = "gp.close" /\ last.ok) => ~last'.ok
      ]_vars

\* What GeneratorProvider.close does: it fails before init and, once init
\* has succeeded, it asks the generator to stop however often it is called;
\* a second close after one that succeeded finds the generator finished and
\* returns like the first.
C21_CloseBeforeInitFails ==
    [][ Did("gp.close") =>
          /\ ~adapter[1].initialized =>
                (~last'.ok /\ last'.err = "NotInitialized" /\ adapter' = adapter)
          /\ (last.op = "gp.close" /\ last.ok) => (last'.ok /\ adapter' = adapter)
      ]_vars

\* close() returned twice in a row on the same adapter.
C21_WitnessTwice ==
    /\ LastIs("gp.close") /\ last.ok
    /\ nops = 4
    /\ adapter[1].done

\* close() failed on an adapter that was never initialised.
C21_WitnessBeforeInit ==
    /\ LastIs("gp.close") /\ ~last.ok /\ last.err = "NotInitialized"
    /\ ~adapter[1].initialized

\* C22: init on an adapter of zero, whose body returns without a yield,
\* fails as did-not-yield and leaves the adapter uninitialised, and on an
\* uninitialised adapter get and close fail as not initialised.  A get of c
\* or 'c:q' on the injector for which c is registered as zero fails the same
\* way and leaves c out of instances, values and get_order, so that close
\* closes nothing.
C22_NoYieldNoInstance ==
    [][ /\ (Did("gp.init") /\ adapter[1].d = "zero") =>
              /\ ~last'.ok /\ last'.err = "DidNotYield"
              /\ ~adapter'[1].initialized
        /\ ((Did("gp.get") \/ Did("gp.close")) /\ adapter[1].d = "zero") =>
              /\ ~last'.ok /\ last'.err = "NotInitialized"
        /\ (Did("get") /\ ~closed /\ IsRegistered(C)) =>
              /\ ~last'.ok /\ last'.err = "DidNotYield"
              /\ ~HasInstance(C)' /\ ~Memoized(C)' /\ ~InSeq(C, get_order')
        /\ Did("close") => last'.log = <<>>
      ]_vars

\* get('c:q') failed as did-not-yield after get('c') had.
C22_Witness ==
    /\ LastIs("get") /\ ~last.ok /\ last.err = "DidNotYield"
    /\ LastNote = Str(Qualified(C, Q))
    /\ Count(stats, Str(C)) = 1
    /\ instances = <<>> /\ values = <<>> /\ get_order = <<>>

\* close() on the adapter of zero failed after its init had.
C22_WitnessAdapter ==
    /\ LastIs("gp.close") /\ ~last.ok /\ last.err = "NotInitialized"
    /\ adapter[1].d = "zero" /\ adapter[1].done

\* The injector closed after the failed get of c.
C22_WitnessClose ==
    /\ LastIs("close") /\ last.ok /\ Count(stats, Str(C)) > 0 /\ IsRegistered(C)

\* C23: a get on the adapter fails as not initialised before init; once
\* initialised, get() returns the value of the first yield and leaves the
\* generator where it was, get(name) on an adapter built without
\* support_name fails as unsupported and leaves the generator where it was,
\* and get(name) on an adapter built with support_name resumes the body
\* exactly once, returning what it yields for that name, or fails as
\* did-not-yield when the body has finished.
C23_AdapterGet ==
    [][ Did("gp.get") =>
          IF ~adapter[1].initialized
          THEN /\ ~last'.ok /\ last'.err = "NotInitialized"
               /\ adapter' = adapter
          ELSE IF last'.arg[1] = None
          THEN /\ last'.ok /\ last'.val = Some(Value(adapter[1].d, None))
               /\ last'.val = adapter[1].init_value
               /\ adapter' = adapter
          ELSE IF ~adapter[1].support_name
          THEN /\ ~last'.ok /\ last'.err = "NoGetByName"
               /\ adapter' = adapter
          ELSE \/ /\ last'.ok
                  /\ last'.val = Some(Value(adapter[1].d, last'.arg[1]))
                  /\ adapter'[1].pos = adapter[1].pos + 1
                  /\ ~adapter[1].done /\ ~adapter'[1].done
               \/ /\ ~last'.ok /\ last'.err = "DidNotYield"
                  /\ adapter'[1].pos = adapter[1].pos
                  /\ adapter'[1].done
      ]_vars

\* Two qualified gets resumed a qualifier-aware adapter twice.
C23_Witness ==
    /\ LastIs("gp.get") /\ last.ok /\ last.arg # Some(None)
    /\ adapter[1].support_name /\ adapter[1].pos = 3

\* get() after a qualified get still returned the value of the first yield.
C23_WitnessInitValue ==
    /\ LastIs("gp.get") /\ last.ok /\ last.arg = Some(None)
    /\ adapter[1].pos = 2

\* A qualified get failed on an adapter built without support_name.
C23_WitnessUnsupported ==
    /\ LastIs("gp.get") /\ last.err = "NoGetByName" /\ adapter[1].pos = 1

\* A qualified get found the body finished.
C23_WitnessFinished ==
    /\ LastIs("gp.get") /\ last.err = "DidNotYield" /\ adapter[1].initialized

\* C24: a note splits at its first colon only, and a note that ends in its
\* only colon ('a:', 'b:') has no name, like the bare note: a get of it
\* returns the memoized value of the base without resolving anything when
\* there is one, and memoizes what it returns when there is none.
C24_TrailingColonIsBare ==
    [][ (Did("get") /\ last'.arg[1] \in {Str(A \o Colon), Str(B \o Colon)}) =>
          IF Memoized(NewBase)
          THEN /\ last'.ok /\ last'.val[1] = values[NewBase]
               /\ NoResolution
          ELSE last'.ok =>
                  /\ NewBase \in DOMAIN values' /\ values'[NewBase] = last'.val[1]
                  /\ last'.val[1].q = None
      ]_vars

\* C24, as the code has it: the note splits at its first colon only, and
\* the name of a note that ends in its only colon is the empty string, so
\* the get asks the provider by that name and memoizes nothing.
C24_TrailingColonIsEmptyName ==
    [][ Did("get") =>
          /\ last'.arg[1] = Str(Qualified(A, Qualified(Q, R))) =>
                /\ NewBase = A /\ NewName = Some(<<"q", ":", "r">>)
                /\ last'.ok /\ last'.val[1] = Value("echo", Some(<<"q", ":", "r">>))
          /\ last'.arg[1] \in {Str(A \o Colon), Str(B \o Colon)} =>
                /\ NewName = Some(<<>>)
                /\ last'.ok => last'.val[1] = Value(SourceOf(NewBase), Some(<<>>))
                /\ values' = values
      ]_vars

\* 'a:' was asked after a had been memoized.
C24_Witness ==
    /\ LastIs("get") /\ LastNote = Str(A \o Colon) /\ last.ok
    /\ Memoized(A) /\ last.val[1] # values[A]

\* 'a:' was answered and a is not memoized.
C24_WitnessFirst ==
    /\ LastIs("get") /\ LastNote = Str(A \o Colon) /\ last.ok
    /\ ~Memoized(A)

Tokens == {PARTIAL, EAGER_PARTIAL}

\* C25: a get of the note partial(f) or eager_partial(f) returns a function
\* of its own, a lazy one with no cached arguments for partial(f), whether or
\* not a provider is registered or a value memoized for the string 'partial'
\* or 'eager_partial': it is never that provider's value, and leaves values,
\* instances and get_order without a new entry for either string; for
\* partial(f) they do not change at all.  The functions returned before stay
\* as they were, and a call of one of them changes the cached arguments of
\* no other.
C25_DirectiveBypassesProviders ==
    [][ /\ (Did("get") /\ last'.arg[1].t \in {"partial", "eager_partial"}) =>
              /\ last'.ok
              /\ Len(wrappers') = Len(wrappers) + 1
              /\ \A j \in 1..Len(wrappers) : wrappers'[j] = wrappers[j]
              /\ last'.val[1] = Newest(wrappers')
              /\ last'.val[1].q = Some("f")
              /\ IF last'.arg[1].t = "partial"
                 THEN /\ Lazy(last'.val[1]) /\ last'.val[1].arg_pack = None
                      /\ NoResolution
                 ELSE last'.val[1].d = "functools.partial"
              /\ \A token \in Tokens :
                    /\ token \in DOMAIN values' =>
                          token \in DOMAIN values /\ values'[token] = values[token]
                    /\ token \in DOMAIN instances' => token \in DOMAIN instances
                    /\ InSeq(token, get_order') => InSeq(token, get_order)
        /\ Did("call") =>
              \A j \in 1..Len(wrappers) :
                  j # last'.arg[1] => wrappers'[j] = wrappers[j]
      ]_vars

\* Two gets of partial(f) returned two functions; the first was called and
\* holds its arguments, the second holds none, and echo is registered for
\* 'partial'.
C25_Witness ==
    /\ Len(wrappers) = 2 /\ Lazy(wrappers[1]) /\ Lazy(wrappers[2])
    /\ wrappers[1].arg_pack # None /\ wrappers[2].arg_pack = None
    /\ Count(stats, Partial("f")) = 2
    /\ IsRegistered(PARTIAL)

\* partial(f) was asked for while 'partial' is memoized.
C25_WitnessMemoized ==
    /\ LastIs("get") /\ LastNote = Partial("f") /\ last.ok
    /\ Memoized(PARTIAL) /\ InSeq(PARTIAL, get_order)

\* C26: get_order holds a base note once at most, and only a base note of
\* which some get has returned; so a base note whose provider was built
\* while every get of it failed (Conf for b, built while its source was
\* down) is not in get_order.  close() closes only instances of base notes
\* in get_order: not that one, and nothing for a base note in get_order that
\* has no instance (a, from the factory echo).
C26_OrderOfServedOnly ==
    /\ \A i, j \in 1..Len(get_order) : get_order[i] = get_order[j] => i = j
    /\ \A i \in 1..Len(get_order) : InSeq(get_order[i], firstok)
    /\ \A b \in DOMAIN instances : ~InSeq(b, firstok) => ~InSeq(b, get_order)
    /\ (LastIs("close") /\ ~last.was_closed) =>
          \A i \in 1..Len(last.log) :
              InSeq(last.log[i], get_order) /\ HasInstance(last.log[i])

\* close() returned having closed nothing: Conf was built for b while every
\* get of b failed, and a came from the factory echo.
C26_Witness ==
    /\ LastIs("close") /\ last.ok /\ last.log = <<>>
    /\ HasInstance(B) /\ ~InSeq(B, firstok) /\ Count(stats, Str(B)) > 0
    /\ get_order = <<A>> /\ ~HasInstance(A)

Before(x, y, s) == \E i, j \in 1..Len(s) : i < j /\ s[i] = x /\ s[j] = y
BuiltFromA == HasInstance(C) /\ instances[C].d = "Dep"

\* C27: Dep, whose constructor is annotated with 'a', is the provider built
\* for c: then a was resolved before, a stands before c in get_order once a
\* get of c has returned, and a close() that returns has closed the instance
\* of c before the instance that supplied a.
C27_DependencyFirst ==
    /\ BuiltFromA => InSeq(A, firstok)
    /\ (BuiltFromA /\ InSeq(C, get_order)) => Before(A, C, get_order)
    /\ (BuiltFromA /\ InSeq(C, get_order) /\ HasInstance(A)
           /\ LastIs("close") /\ last.ok /\ ~last.was_closed) =>
          Before(C, A, last.log)

\* C27, as the code has it: a was resolved before Dep was built for c, and
\* close() closes in the reverse of get_order, whatever the order of a and c
\* in it.
C27_DependencyFirstWhenListed ==
    /\ BuiltFromA => InSeq(A, firstok)
    /\ (LastIs("close") /\ ~last.was_closed) =>
          \A i, j \in 1..Len(last.log) :
              i < j => Before(last.log[j], last.log[i], get_order)

\* Dep was built for c from the first yield of once, and both were closed.
C27_Witness ==
    /\ LastIs("close") /\ last.ok /\ last.log = <<C, A>>
    /\ BuiltFromA /\ instances[A].d = "once"

Called_i == wrappers[last'.arg[1]]
NoteOfG == Str(Qualified(B, Q))

\* C28: a call of a lazy partial of g that holds no cached arguments asks
\* the open injector for 'b:q' at that call, whatever earlier calls did.
\* When that fails (the source of b is down or broken) g is not called and
\* the partial still holds no cached arguments; when it succeeds g is called
\* and the arguments are cached.  A call of a partial that holds cached
\* arguments asks for nothing and leaves them as they are.
C28_FailedCallCachesNothing ==
    [][ Did("call") =>
          IF Called_i.arg_pack = None
          THEN /\ ~closed =>
                    /\ Count(stats', NoteOfG) = Count(stats, NoteOfG) + 1
                    /\ last'.ok <=> world = "up"
               /\ IF last'.ok
                  THEN /\ last'.called
                       /\ wrappers'[last'.arg[1]].arg_pack # None
                       /\ wrappers'[last'.arg[1]].arg_pack[1].args =
                              <<Value("Conf", Some(Q))>>
                  ELSE /\ ~last'.called
                       /\ wrappers' = wrappers
          ELSE /\ wrappers' = wrappers /\ stats' = stats
               /\ last'.ok /\ last'.called
      ]_vars

\* A lazy partial of g was called while the source of b was down, which
\* failed, and called again when it was up, which resolved 'b:q' and called g.
C28_Witness ==
    /\ LastIs("call") /\ last.ok /\ last.called
    /\ last.log = <<"up", "arg_pack">>
    /\ Count(stats, NoteOfG) = 2
    /\ Len(wrappers) = 1

\* C29: once the injector is closed, a call of a lazy partial of g that
\* holds cached arguments, from a call made before the close, calls g with
\* them and asks the injector for nothing; a call of a lazy partial that
\* holds none fails as closed, every time, without calling g, without
\* counting a request and without caching anything.
C29_CachedSurvivesClose ==
    [][ (Did("call") /\ closed) =>
          IF Called_i.arg_pack # None
          THEN /\ last'.ok /\ last'.called
               /\ last'.val[1] = Call("g", Called_i.arg_pack[1].args, <<>>)
               /\ Called_i.arg_pack[1].args = <<Value("Conf", Some(Q))>>
               /\ stats' = stats /\ NoResolution
               /\ wrappers' = wrappers
          ELSE /\ ~last'.ok /\ last'.err = "Closed" /\ ~last'.called
               /\ stats' = stats /\ NoResolution
               /\ wrappers' = wrappers
      ]_vars

\* A lazy partial called before the close was called again after it.
C29_Witness ==
    /\ LastIs("call") /\ last.ok /\ last.called /\ closed
    /\ last.log = <<world>>
    /\ wrappers[last.arg[1]].arg_pack # None

\* A lazy partial made before the close failed as closed at its second call.
C29_WitnessNeverCalled ==
    /\ LastIs("call") /\ ~last.ok /\ last.err = "Closed" /\ closed
    /\ Len(wrappers) = 1 /\ nops = 4
    /\ wrappers[1].arg_pack = None

FromSpam(basenote) == IsRegistered(basenote) /\ SourceOf(basenote) = "spam"

\* C30: spam is registered for c with name=True and for a with name=False.
\* A get of 'c:q' served by spam is answered by name, and a get of 'a:q'
\* served by spam fails as unsupported, whichever of the two registrations
\* was made last.
C30_FlagOfTheRegistration ==
    [][ /\ (Did("get") /\ last'.arg[1] = Str(Qualified(C, Q)) /\ FromSpam(C)) =>
              last'.ok /\ last'.val[1] = Value("spam", Some(Q))
        /\ (Did("get") /\ last'.arg[1] = Str(Qualified(A, Q)) /\ FromSpam(A)) =>
              ~last'.ok /\ last'.err = "NoGetByName"
      ]_vars

\* C30, as the code has it: the adapter is built with the flag that the
\* latest registration of spam, for whichever note, left on the function,
\* and keeps it from then on.
C30_FlagOfTheFunction ==
    [][ (Did("get") /\ NewName # None /\ FromSpam(NewBase)) =>
          IF HasInstance(NewBase)
          THEN last'.ok <=> instances[NewBase].support_name
          ELSE /\ last'.ok <=> support_name["spam"] = Some(TRUE)
               /\ instances'[NewBase].support_name = support_name["spam"][1]
      ]_vars

\* 'c:q' failed as unsupported after spam had been registered for a.
C30_Witness ==
    /\ LastIs("get") /\ LastNote = Str(Qualified(C, Q))
    /\ last.err = "NoGetByName"
    /\ lookup(provider_registry, cls, A) = Some("spam")

====
